---- MODULE Spec2Model ----
(***************************************************************************)
(* Model of the GitHub backend API of netlify-cms (src/unnamed/part_000):  *)
(* the metadata store kept on the ref refs/meta/_netlify_cms (serialized   *)
(* by a semaphore, cached in localForage), the content-key codec, the      *)
(* rebase engine and the editorial workflow of an entry.                   *)
(***************************************************************************)
EXTENDS Integers, Sequences, FiniteSets, TLC

(***************************************************************************)
(* Bounds of the model.                                                    *)
(***************************************************************************)
NumCalls == 3
MaxExternal == 1
MaxTicks == 2
TickMs == 150000
MaxLen == 2
MaxCommits == 2
MaxOps == 3
MaxSha == 3
MaxPatches == 3

(***************************************************************************)
(* Program constants.                                                      *)
(***************************************************************************)
\* mutation of SemCapacity: two slots
SemCapacityTwo == 1 + 1

SemCapacity == 1
CacheTTL == 300000

Calls == 1..NumCalls
Keys == {"k1", "k2"}
Docs == {"m1", "m2"}
ExtDoc == "mx"
None == "none"
WriteOps == {"store", "delete"}

EmptyTree == [k \in Keys |-> None]
NoChange == [tree |-> EmptyTree, parentSha |-> 0]
NoCommit == [parent |-> 0, tree |-> EmptyTree]

VARIABLES
  commits,     \* remote commits a ref has pointed at; a sha is an index of this sequence
               \* (a commit no ref points at yet is held by the call that created it)
  metaRef,     \* remote ref refs/meta/_netlify_cms: a sha, or 0 when absent
  sem,         \* this._metadataSemaphore: [current, queue]
  call,        \* the calls of storeMetadata, deleteMetadata, retrieveMetadata
  cache,       \* localForage entries gh.meta.<key>
  now,         \* Date.now(), in ms
  lastStore,   \* history: the last successful storeMetadata of each key
  expected,    \* history: the tree after the writes, in the order of their ref patches
  failed,      \* history: some remote call failed in transport
  extCount,    \* history: number of writes of the external writer
  codec,       \* the content-key codec: its inputs and results
  rb,          \* the rebase engine: the comparison it reads and the commits it creates
  wf,          \* the editorial workflow: entry branch, pull request, default branch, Metadata
  up,          \* the update of an entry that is in the workflow
  lu,          \* listUnpublishedBranches: the branches, their pull requests and Metadata
  pb           \* patchBranch: the branch refs and the ref updates asked for

storeVars == <<commits, metaRef, sem, call, cache, now, lastStore, expected, failed, extCount>>
vars == <<commits, metaRef, sem, call, cache, now, lastStore, expected, failed, extCount, codec, rb, wf, up, lu, pb>>

IdleCall ==
  [pc |-> "idle", op |-> "none", key |-> None, data |-> None, branchData |-> 0,
   changeTree |-> NoChange, newCommit |-> NoCommit, result |-> "pending", caught |-> "none",
   remoteRead |-> FALSE, value |-> None]

----------------------------------------------------------------------------
(***************************************************************************)
(* The remote repository (GitHub git data API).                            *)
(***************************************************************************)
RECURSIVE IsAncestor(_, _, _)
IsAncestor(cs, a, b) ==
  IF b = 0 THEN FALSE
  ELSE IF a = b THEN TRUE
  ELSE IsAncestor(cs, a, cs[b].parent)

RECURSIVE ChainLength(_, _)
ChainLength(cs, b) == IF b = 0 THEN 0 ELSE 1 + ChainLength(cs, cs[b].parent)

TreeOf(cs, sha) == cs[sha].tree

\* updateTree / createTree: the tree of baseSha with one path changed
ApplyChange(tree, k, v) == [tree EXCEPT ![k] = v]

\* patchRef: a non-forced update is accepted only when it is a fast-forward
PatchRefAccepted(cs, ref, newCommit, force) ==
  /\ ref # 0
  /\ (force \/ IsAncestor(cs, ref, newCommit.parent))

\* createRef: rejected when the ref exists already
CreateRefAccepted(ref) == ref = 0

----------------------------------------------------------------------------
(***************************************************************************)
(* semaphore(1): take and leave.                                           *)
(***************************************************************************)
\* mutation of TakeEnters: take never waits
TakeEntersAlways(s) == TRUE

TakeEnters(s) == s.current + 1 <= SemCapacity

Take(s, c) ==
  IF TakeEnters(s)
    THEN [s EXCEPT !.current = s.current + 1]
    ELSE [s EXCEPT !.queue = Append(s.queue, c)]

LeaveSem(s) ==
  IF s.queue = <<>> \/ 1 + (s.current - 1) > SemCapacity
    THEN [s EXCEPT !.current = s.current - 1]
    ELSE [s EXCEPT !.queue = Tail(s.queue)]

LeaveCalls(cl, s) ==
  IF s.queue = <<>> \/ 1 + (s.current - 1) > SemCapacity
    THEN cl
    ELSE [cl EXCEPT ![Head(s.queue)].pc = "checkRef"]

Settle(cl, c, res, err) ==
  [cl EXCEPT ![c].pc = "settled", ![c].result = res, ![c].caught = err, ![c].data = None,
             ![c].branchData = 0, ![c].changeTree = NoChange, ![c].newCommit = NoCommit]

\* the catch blocks: storeMetadata rejects; deleteMetadata leaves and resolves
CatchSem(s, o) == IF o = "store" THEN s ELSE LeaveSem(s)

\* mutation of CatchCalls: the catch block of deleteMetadata rejects as well
CatchCallsRejecting(cl, s, c, err) == Settle(cl, c, err, err)

CatchCalls(cl, s, c, err) ==
  IF cl[c].op = "store"
    THEN Settle(cl, c, err, err)
    ELSE Settle(LeaveCalls(cl, s), c, "resolved", err)

\* a remote call of a write rejected with err
Catch(c, err) ==
  /\ call' = CatchCalls(call, sem, c, err)
  /\ sem' = CatchSem(sem, call[c].op)

----------------------------------------------------------------------------
(***************************************************************************)
(* localForage cache of metadata documents.                                *)
(***************************************************************************)
NoEntry == [expires |-> 0 - 1, data |-> None]
NoStore == [at |-> 0 - 1, data |-> None]

CacheExpires(t) == t + CacheTTL

\* mutation of CacheValid: an entry is still valid at its expiry time
CacheValidInclusive(e, t) == e # NoEntry /\ e.expires >= t

CacheValid(e, t) == e # NoEntry /\ e.expires > t

----------------------------------------------------------------------------
(***************************************************************************)
(* Initial state: a new API instance, the metadata ref absent or present.  *)
(***************************************************************************)
IdleCodec ==
  [pc |-> "idle", useOpenAuthoring |-> FALSE, repo |-> <<>>, collectionName |-> <<>>,
   slug |-> <<>>, generated |-> FALSE, contentKey |-> <<>>, branchName |-> <<>>,
   keyFromRef |-> <<>>, slugFromKey |-> <<>>]

\* the rebase engine before rebaseBranch is called on a repository
IdleRebase ==
  [pc |-> "idle", remote |-> <<>>, defaultTip |-> 0, head |-> 0, baseCommit |-> 0,
   commits |-> <<>>, i |-> 0, newParent |-> 0, files |-> <<>>, tree |-> <<>>,
   created |-> <<>>, trees |-> 0, result |-> 0, replayed |-> FALSE]

\* the editorial workflow before an entry is given to it
IdleWorkflow == [pc |-> "off"]
IdleUpdate == [pc |-> "off"]
IdleListing == [pc |-> "off"]
IdlePatch == [pc |-> "off"]

StoreInit ==
  /\ \/ commits = <<>> /\ metaRef = 0
     \/ commits = <<[parent |-> 0, tree |-> EmptyTree]>> /\ metaRef = 1
  /\ sem = [current |-> 0, queue |-> <<>>]
  /\ call = [c \in Calls |-> IdleCall]
  /\ cache = [k \in Keys |-> NoEntry]
  /\ now = 0
  /\ lastStore = [k \in Keys |-> NoStore]
  /\ expected = EmptyTree
  /\ failed = FALSE
  /\ extCount = 0

Init ==
  /\ StoreInit
  /\ codec = IdleCodec
  /\ rb = IdleRebase
  /\ wf = IdleWorkflow
  /\ up = IdleUpdate
  /\ lu = IdleListing
  /\ pb = IdlePatch

\* keys and documents are interchangeable: the first call names its key k1 and
\* its document m1
FirstInputs(c, k, d) == c = 1 => (k = "k1" /\ d \in {"m1", None})

\* calls are numbered in the order they are made
MayStart(c) == call[c].pc = "idle" /\ (IF c = 1 THEN TRUE ELSE call[c - 1].pc # "idle")

----------------------------------------------------------------------------
(***************************************************************************)
(* storeMetadata and deleteMetadata.                                       *)
(***************************************************************************)
Entered(cl, s, c, o, k, d) ==
  [cl EXCEPT ![c].op = o, ![c].key = k, ![c].data = d,
             ![c].pc = IF TakeEnters(s) THEN "checkRef" ELSE "waiting"]

storeMetadata(c, k, d) ==
  /\ MayStart(c)
  /\ FirstInputs(c, k, d)
  /\ call' = Entered(call, sem, c, "store", k, d)
  /\ sem' = Take(sem, c)
  /\ UNCHANGED <<commits, metaRef, cache, now, lastStore, expected, failed, extCount, codec, rb, wf, up, lu, pb>>

deleteMetadata(c, k) ==
  /\ MayStart(c)
  /\ FirstInputs(c, k, None)
  /\ call' = Entered(call, sem, c, "delete", k, None)
  /\ sem' = Take(sem, c)
  /\ UNCHANGED <<commits, metaRef, cache, now, lastStore, expected, failed, extCount, codec, rb, wf, up, lu, pb>>

\* the history of the writes is dropped at the first failure
Forget(f, tree) == IF f THEN EmptyTree ELSE tree

AfterCheck(o) == IF o = "store" THEN "uploadBlob" ELSE "updateTree"

\* checkMetadataRef: read the ref; any failure of the read starts the bootstrap
checkMetadataRef(c) ==
  /\ call[c].pc = "checkRef"
  /\ \E ok \in BOOLEAN :
       IF ok /\ metaRef # 0
         THEN /\ call' = [call EXCEPT ![c].branchData = metaRef,
                                      ![c].pc = AfterCheck(call[c].op)]
              /\ failed' = failed
         ELSE /\ call' = [call EXCEPT ![c].pc = "bootBlob"]
              /\ failed' = (failed \/ metaRef # 0)
  /\ expected' = Forget(failed', expected)
  /\ UNCHANGED <<commits, metaRef, sem, cache, now, lastStore, extCount, codec, rb, wf, up, lu, pb>>

\* a remote call that creates an unreferenced object (blob or tree) and moves on
ObjectStep(c, from, to) ==
  /\ call[c].pc = from
  /\ \E ok \in BOOLEAN :
       IF ok
         THEN call' = [call EXCEPT ![c].pc = to] /\ UNCHANGED <<sem, failed>>
         ELSE Catch(c, "Transport") /\ failed' = TRUE
  /\ expected' = Forget(failed', expected)
  /\ UNCHANGED <<commits, metaRef, cache, now, lastStore, extCount, codec, rb, wf, up, lu, pb>>

bootUploadBlob(c) == ObjectStep(c, "bootBlob", "bootTree")

bootCreateTree(c) == ObjectStep(c, "bootTree", "bootCommit")

\* commit: a new commit object on changeTree, its parent changeTree.parentSha;
\* no ref points at it yet
commitStep(c, from, to, ct) ==
  /\ call[c].pc = from
  /\ \E ok \in BOOLEAN :
       IF ok
         THEN /\ call' = [call EXCEPT ![c].pc = to, ![c].changeTree = NoChange,
                                      ![c].newCommit = [parent |-> ct.parentSha,
                                                        tree |-> ct.tree]]
              /\ UNCHANGED <<sem, failed>>
         ELSE /\ Catch(c, "Transport")
              /\ failed' = TRUE
  /\ expected' = Forget(failed', expected)
  /\ UNCHANGED <<commits, metaRef, cache, now, lastStore, extCount, codec, rb, wf, up, lu, pb>>

bootCommit(c) == commitStep(c, "bootCommit", "bootRef", NoChange)

bootCreateRef(c) ==
  /\ call[c].pc = "bootRef"
  /\ \E ok \in BOOLEAN :
       IF ~ok
         THEN Catch(c, "Transport") /\ failed' = TRUE /\ UNCHANGED <<commits, metaRef>>
         ELSE IF CreateRefAccepted(metaRef)
           THEN /\ commits' = Append(commits, call[c].newCommit)
                /\ metaRef' = Len(commits) + 1
                /\ call' = [call EXCEPT ![c].branchData = Len(commits) + 1,
                                        ![c].newCommit = NoCommit,
                                        ![c].pc = AfterCheck(call[c].op)]
                /\ UNCHANGED <<sem, failed>>
           ELSE Catch(c, "AlreadyExists") /\ UNCHANGED <<commits, metaRef, failed>>
  /\ expected' = Forget(failed', expected)
  /\ UNCHANGED <<cache, now, lastStore, extCount, codec, rb, wf, up, lu, pb>>

uploadBlob(c) == ObjectStep(c, "uploadBlob", "updateTree")

FileSha(cl) == IF cl.op = "store" THEN cl.data ELSE None

updateTree(c) ==
  /\ call[c].pc = "updateTree"
  /\ \E ok \in BOOLEAN :
       IF ok
         THEN /\ call' = [call EXCEPT
                   ![c].changeTree =
                      [tree |-> ApplyChange(TreeOf(commits, call[c].branchData),
                                            call[c].key, FileSha(call[c])),
                       parentSha |-> call[c].branchData],
                   ![c].pc = "commit"]
              /\ UNCHANGED <<sem, failed>>
         ELSE Catch(c, "Transport") /\ failed' = TRUE
  /\ expected' = Forget(failed', expected)
  /\ UNCHANGED <<commits, metaRef, cache, now, lastStore, extCount, codec, rb, wf, up, lu, pb>>

commit(c) == commitStep(c, "commit", "patchRef", call[c].changeTree)

\* history of the writes, kept while no remote call failed and nobody else wrote
Written(tree, k, v) ==
  IF failed \/ extCount > 0 THEN EmptyTree ELSE ApplyChange(tree, k, v)

\* mutation of MetaPatchForce: the metadata ref is force-updated
MetaPatchForced == TRUE

\* opts of the patchRef of storeMetadata and deleteMetadata: none, so force is false
MetaPatchForce == FALSE

storePatchRef(c) ==
  /\ call[c].pc = "patchRef" /\ call[c].op = "store"
  /\ \E ok \in BOOLEAN :
       IF ~ok
         THEN /\ Catch(c, "Transport") /\ failed' = TRUE
              /\ expected' = EmptyTree
              /\ UNCHANGED <<commits, metaRef, cache, lastStore>>
         ELSE /\ expected' = Written(expected, call[c].key, call[c].data)
              /\ failed' = failed
              /\ IF PatchRefAccepted(commits, metaRef, call[c].newCommit, MetaPatchForce)
                   THEN /\ commits' = Append(commits, call[c].newCommit)
                        /\ metaRef' = Len(commits) + 1
                        /\ cache' = [cache EXCEPT ![call[c].key] =
                              [expires |-> CacheExpires(now), data |-> call[c].data]]
                        /\ lastStore' = [lastStore EXCEPT ![call[c].key] =
                              [at |-> now, data |-> call[c].data]]
                        /\ sem' = LeaveSem(sem)
                        /\ call' = Settle(LeaveCalls(call, sem), c, "resolved", "none")
                   ELSE /\ Catch(c, "Conflict")
                        /\ UNCHANGED <<commits, metaRef, cache, lastStore>>
  /\ UNCHANGED <<now, extCount, codec, rb, wf, up, lu, pb>>

deletePatchRef(c) ==
  /\ call[c].pc = "patchRef" /\ call[c].op = "delete"
  /\ \E ok \in BOOLEAN :
       IF ~ok
         THEN /\ Catch(c, "Transport") /\ failed' = TRUE
              /\ expected' = EmptyTree
              /\ UNCHANGED <<commits, metaRef>>
         ELSE /\ expected' = Written(expected, call[c].key, None)
              /\ failed' = failed
              /\ IF PatchRefAccepted(commits, metaRef, call[c].newCommit, MetaPatchForce)
                   THEN /\ commits' = Append(commits, call[c].newCommit)
                        /\ metaRef' = Len(commits) + 1
                        /\ sem' = LeaveSem(sem)
                        /\ call' = Settle(LeaveCalls(call, sem), c, "resolved", "none")
                   ELSE /\ Catch(c, "Conflict")
                        /\ UNCHANGED <<commits, metaRef>>
  /\ UNCHANGED <<cache, lastStore, now, extCount, codec, rb, wf, up, lu, pb>>

----------------------------------------------------------------------------
(***************************************************************************)
(* retrieveMetadata.                                                       *)
(***************************************************************************)
retrieveMetadata(c, k) ==
  /\ MayStart(c)
  /\ FirstInputs(c, k, None)
  /\ call' = [call EXCEPT ![c].op = "retrieve", ![c].key = k, ![c].pc = "cacheGet"]
  /\ UNCHANGED <<commits, metaRef, sem, cache, now, lastStore, expected, failed, extCount, codec, rb, wf, up, lu, pb>>

\* the callback on the cache entry
retrieveCached(c) ==
  /\ call[c].pc = "cacheGet"
  /\ IF CacheValid(cache[call[c].key], now)
       THEN call' = [Settle(call, c, "resolved", "none")
                       EXCEPT ![c].value = cache[call[c].key].data]
       ELSE call' = [call EXCEPT ![c].pc = "remoteGet"]
  /\ UNCHANGED <<commits, metaRef, sem, cache, now, lastStore, expected, failed, extCount, codec, rb, wf, up, lu, pb>>

\* the document of key k on the metadata ref, None when there is none
RemoteDoc(cs, ref, k) == IF ref = 0 THEN None ELSE TreeOf(cs, ref)[k]

retrieveRemote(c) ==
  /\ call[c].pc = "remoteGet"
  /\ \E ok \in BOOLEAN :
       IF ~ok
         THEN /\ call' = [Settle(call, c, "Transport", "Transport")
                            EXCEPT ![c].remoteRead = TRUE]
              /\ failed' = TRUE
         ELSE /\ failed' = failed
              /\ IF RemoteDoc(commits, metaRef, call[c].key) = None
                   THEN call' = [Settle(call, c, "NotFound", "NotFound")
                                   EXCEPT ![c].remoteRead = TRUE]
                   ELSE call' = [Settle(call, c, "resolved", "none")
                                   EXCEPT ![c].remoteRead = TRUE,
                                          ![c].value = RemoteDoc(commits, metaRef, call[c].key)]
  /\ expected' = Forget(failed', expected)
  /\ UNCHANGED <<commits, metaRef, sem, cache, now, lastStore, extCount, codec, rb, wf, up, lu, pb>>

----------------------------------------------------------------------------
(***************************************************************************)
(* The environment: time, and a writer outside this process.               *)
(***************************************************************************)
\* time is told only by the expiry of cache entries: it passes while one is valid
Tick ==
  /\ now + TickMs <= MaxTicks * TickMs
  /\ \E k \in Keys : CacheValid(cache[k], now)
  /\ now' = now + TickMs
  /\ UNCHANGED <<commits, metaRef, sem, call, cache, lastStore, expected, failed, extCount, codec, rb, wf, up, lu, pb>>

ExternalWrite(k) ==
  /\ metaRef # 0
  /\ extCount < MaxExternal
  /\ commits' = Append(commits,
        [parent |-> metaRef, tree |-> ApplyChange(TreeOf(commits, metaRef), k, ExtDoc)])
  /\ metaRef' = Len(commits) + 1
  /\ extCount' = extCount + 1
  /\ expected' = EmptyTree
  /\ UNCHANGED <<sem, call, cache, now, lastStore, failed, codec, rb, wf, up, lu, pb>>

ExternalCreateRef ==
  /\ metaRef = 0
  /\ extCount < MaxExternal
  /\ commits' = Append(commits, [parent |-> 0, tree |-> EmptyTree])
  /\ metaRef' = Len(commits) + 1
  /\ extCount' = extCount + 1
  /\ expected' = EmptyTree
  /\ UNCHANGED <<sem, call, cache, now, lastStore, failed, codec, rb, wf, up, lu, pb>>

Next ==
  \/ \E c \in Calls, k \in Keys, d \in Docs : storeMetadata(c, k, d)
  \/ \E c \in Calls, k \in Keys : deleteMetadata(c, k)
  \/ \E c \in Calls : checkMetadataRef(c)
  \/ \E c \in Calls : bootUploadBlob(c)
  \/ \E c \in Calls : bootCreateTree(c)
  \/ \E c \in Calls : bootCommit(c)
  \/ \E c \in Calls : bootCreateRef(c)
  \/ \E c \in Calls : uploadBlob(c)
  \/ \E c \in Calls : updateTree(c)
  \/ \E c \in Calls : commit(c)
  \/ \E c \in Calls : storePatchRef(c)
  \/ \E c \in Calls : deletePatchRef(c)
  \/ \E k \in Keys : ExternalWrite(k)
  \/ ExternalCreateRef

\* the metadata store of one API instance, with a writer outside the process
Spec == Init /\ [][Next]_vars

CacheNext ==
  \/ \E c \in Calls, k \in Keys, d \in Docs : storeMetadata(c, k, d)
  \/ \E c \in Calls, k \in Keys : deleteMetadata(c, k)
  \/ \E c \in Calls, k \in Keys : retrieveMetadata(c, k)
  \/ \E c \in Calls : checkMetadataRef(c)
  \/ \E c \in Calls : bootUploadBlob(c)
  \/ \E c \in Calls : bootCreateTree(c)
  \/ \E c \in Calls : bootCommit(c)
  \/ \E c \in Calls : bootCreateRef(c)
  \/ \E c \in Calls : uploadBlob(c)
  \/ \E c \in Calls : updateTree(c)
  \/ \E c \in Calls : commit(c)
  \/ \E c \in Calls : storePatchRef(c)
  \/ \E c \in Calls : deletePatchRef(c)
  \/ \E c \in Calls : retrieveCached(c)
  \/ \E c \in Calls : retrieveRemote(c)
  \/ Tick

\* the metadata store with its reads and the clock of the cache
CacheSpec == Init /\ [][CacheNext]_vars

----------------------------------------------------------------------------
(***************************************************************************)
(* Content-key codec.  A string is a sequence of characters.               *)
(***************************************************************************)
Slash == <<"/">>
CMS_BRANCH_PREFIX == <<"c", "m", "s">>
RefsHeads == <<"r", "e", "f", "s", "/", "h", "e", "a", "d", "s", "/">>

\* String.prototype.substring(start)
Substring(str, start) == SubSeq(str, start + 1, Len(str))

\* strings over an alphabet, of length 1..n
RECURSIVE StringsUpTo(_, _)
StringsUpTo(alphabet, n) ==
  IF n = 0 THEN {}
  ELSE LET shorter == StringsUpTo(alphabet, n - 1)
       IN  {<<a>> : a \in alphabet} \cup shorter
             \cup {Append(t, a) : t \in shorter, a \in alphabet}

Repos == {<<"o", "/", "r">>, <<"u", "/", "f">>}
CollectionNames == StringsUpTo({"a", "b"}, MaxLen)
Slugs == StringsUpTo({"a", "/"}, MaxLen)
ContentKeys == StringsUpTo({"a", "c", "/"}, MaxLen + 1)

\* generateContentKey of netlify-cms-lib-util
LibGenerateContentKey(collectionName, slug) == collectionName \o Slash \o slug

\* API.generateContentKey: the result of the library call is not returned
generateContentKey(useOpenAuthoring, repo, collectionName, slug) ==
  LET unused == IF ~useOpenAuthoring
                  THEN LibGenerateContentKey(collectionName, slug)
                  ELSE <<>>
  IN  repo \o Slash \o collectionName \o Slash \o slug

slugFromContentKey(useOpenAuthoring, repo, contentKey, collectionName) ==
  IF ~useOpenAuthoring
    THEN Substring(contentKey, Len(collectionName) + 1)
    ELSE Substring(contentKey, Len(repo) + Len(collectionName) + 2)

generateBranchName(contentKey) == CMS_BRANCH_PREFIX \o Slash \o contentKey

branchNameFromRef(ref) == Substring(ref, Len(RefsHeads))

\* mutation of contentKeyFromRef: only refs/heads/ is cut off
contentKeyFromRefShort(ref) == Substring(ref, Len(RefsHeads))

contentKeyFromRef(ref) == Substring(ref, Len(RefsHeads \o CMS_BRANCH_PREFIX \o Slash))

CodecInit ==
  /\ StoreInit
  /\ metaRef = 0
  /\ rb = IdleRebase
  /\ wf = IdleWorkflow
  /\ up = IdleUpdate
  /\ lu = IdleListing
  /\ pb = IdlePatch
  /\ \E oa \in BOOLEAN, r \in Repos, cn \in CollectionNames, sl \in Slugs :
       codec = [IdleCodec EXCEPT !.useOpenAuthoring = oa, !.repo = r,
                                 !.collectionName = cn, !.slug = sl]

\* a content key made by generateContentKey from the collection and the slug
CodecGenerateContentKey ==
  /\ codec.pc = "idle"
  /\ codec' = [codec EXCEPT
       !.pc = "key", !.generated = TRUE,
       !.contentKey = generateContentKey(codec.useOpenAuthoring, codec.repo,
                                         codec.collectionName, codec.slug)]
  /\ UNCHANGED <<storeVars, rb, wf, up, lu, pb>>

\* a content key handed in by the caller
CodecGivenContentKey(K) ==
  /\ codec.pc = "idle"
  /\ codec' = [codec EXCEPT !.pc = "key", !.contentKey = K]
  /\ UNCHANGED <<storeVars, rb, wf, up, lu, pb>>

CodecGenerateBranchName ==
  /\ codec.pc = "key"
  /\ codec' = [codec EXCEPT !.pc = "branch",
                            !.branchName = generateBranchName(codec.contentKey)]
  /\ UNCHANGED <<storeVars, rb, wf, up, lu, pb>>

CodecContentKeyFromRef ==
  /\ codec.pc = "branch"
  /\ codec' = [codec EXCEPT !.pc = "ref",
                            !.keyFromRef = contentKeyFromRef(RefsHeads \o codec.branchName)]
  /\ UNCHANGED <<storeVars, rb, wf, up, lu, pb>>

CodecSlugFromContentKey ==
  /\ codec.pc = "ref"
  /\ codec.generated
  /\ codec' = [codec EXCEPT
       !.pc = "done",
       !.slugFromKey = slugFromContentKey(codec.useOpenAuthoring, codec.repo,
                                          codec.contentKey, codec.collectionName)]
  /\ UNCHANGED <<storeVars, rb, wf, up, lu, pb>>

CodecNext ==
  \/ CodecGenerateContentKey
  \/ \E K \in ContentKeys : CodecGivenContentKey(K)
  \/ CodecGenerateBranchName
  \/ CodecContentKeyFromRef
  \/ CodecSlugFromContentKey

\* the codec applied to every collection, slug and key within the bounds
CodecSpec == CodecInit /\ [][CodecNext]_vars

----------------------------------------------------------------------------
(***************************************************************************)
(* patchBranch and the branch refs.  The commits are 1..MaxSha, each the   *)
(* child of the one before, so an update of a ref is a fast forward when   *)
(* it does not move the ref back.                                          *)
(***************************************************************************)
\* this.branch, the default branch
DefaultBranch == <<"m">>

\* the branch names patchBranch is given: the default branch, an entry branch,
\* and names that begin like the prefix without the slash
PatchNames ==
  {DefaultBranch, generateBranchName(<<"a">>), CMS_BRANCH_PREFIX, CMS_BRANCH_PREFIX \o <<"a">>}

\* String.prototype.startsWith
StartsWith(str, prefix) == Len(str) >= Len(prefix) /\ SubSeq(str, 1, Len(prefix)) = prefix

\* mutation of assertCmsBranch: every branch passes
assertCmsBranchAny(branchName) == TRUE

assertCmsBranch(branchName) == StartsWith(branchName, CMS_BRANCH_PREFIX \o Slash)

\* the remote takes the update of a ref when it is forced or a fast forward
PatchRefTaken(current, sha, force) == force \/ sha >= current

PatchUnchanged == UNCHANGED <<storeVars, codec, rb, wf, up, lu>>

NoPatch == [site |-> "none", branchName |-> <<>>, sha |-> 0, force |-> FALSE, result |-> "none"]

PatchStart ==
  [pc |-> "on", refs |-> [name \in PatchNames |-> 1], forced |-> [name \in PatchNames |-> FALSE],
   calls |-> 0, requests |-> 0, last |-> NoPatch]

PatchInit ==
  /\ StoreInit
  /\ metaRef = 0
  /\ codec = IdleCodec
  /\ rb = IdleRebase
  /\ wf = IdleWorkflow
  /\ up = IdleUpdate
  /\ lu = IdleListing
  /\ pb = PatchStart

\* patchBranch(branchName, sha, opts) called from site: it throws before any
\* request when the update is forced and the branch is not a CMS branch, and
\* is patchRef('heads', branchName, sha, { force }) else
patchBranch(site, branchName, sha, force) ==
  /\ pb.pc = "on"
  /\ pb.calls < MaxPatches
  /\ LET asked == [site |-> site, branchName |-> branchName, sha |-> sha, force |-> force,
                   result |-> "none"]
     IN IF force /\ ~assertCmsBranch(branchName)
          THEN pb' = [pb EXCEPT !.calls = @ + 1, !.last = [asked EXCEPT !.result = "Error"]]
        ELSE \E ok \in BOOLEAN :
          IF ~ok
            THEN pb' = [pb EXCEPT !.calls = @ + 1, !.requests = @ + 1,
                                  !.last = [asked EXCEPT !.result = "Transport"]]
          ELSE IF ~PatchRefTaken(pb.refs[branchName], sha, force)
            THEN pb' = [pb EXCEPT !.calls = @ + 1, !.requests = @ + 1,
                                  !.last = [asked EXCEPT !.result = "Conflict"]]
          ELSE pb' = [pb EXCEPT !.calls = @ + 1, !.requests = @ + 1,
                                !.refs[branchName] = sha,
                                !.forced[branchName] = @ \/ force,
                                !.last = [asked EXCEPT !.result = "ok"]]

\* persistFiles without the workflow: patchBranch(this.branch, response.sha)
patchPersistFiles(sha) ==
  /\ patchBranch("persistFiles", DefaultBranch, sha, FALSE)
  /\ PatchUnchanged

\* forceMergePR: patchBranch(this.branch, response.sha)
patchForceMergePR(sha) ==
  /\ patchBranch("forceMergePR", DefaultBranch, sha, FALSE)
  /\ PatchUnchanged

\* the update of an entry: patchBranch(branchName, commit.sha, { force: true })
\* with the branch name generateBranchName made
patchUpdate(sha) ==
  /\ patchBranch("update", generateBranchName(<<"a">>), sha, TRUE)
  /\ PatchUnchanged

\* patchBranch with any branch name and any option
patchAny(branchName, sha, force) ==
  /\ patchBranch("any", branchName, sha, force)
  /\ PatchUnchanged

\* a pull request into the default branch is merged
patchMerge ==
  /\ pb.pc = "on"
  /\ pb.refs[DefaultBranch] < MaxSha
  /\ pb' = [pb EXCEPT !.refs[DefaultBranch] = @ + 1]
  /\ PatchUnchanged

PatchNext ==
  \/ \E sha \in 1..MaxSha : patchPersistFiles(sha)
  \/ \E sha \in 1..MaxSha : patchForceMergePR(sha)
  \/ \E sha \in 1..MaxSha : patchUpdate(sha)
  \/ \E branchName \in PatchNames, sha \in 1..MaxSha, force \in BOOLEAN :
       patchAny(branchName, sha, force)
  \/ patchMerge

\* up to MaxPatches calls of patchBranch, from its callers and with any input
PatchSpec == PatchInit /\ [][PatchNext]_vars

----------------------------------------------------------------------------
(***************************************************************************)
(* The rebase engine: rebaseBranch replays the commits unique to an entry  *)
(* branch on the tip of the default branch.                                *)
(***************************************************************************)
Paths == {"a.md", "b.md"}
Blobs == {"s1", "s2"}
RepoTrees == [Paths -> Blobs \cup {None}]

\* message, author and committer of the commits the repository starts with
CommitInfo(k) ==
  [message |-> <<"message", k>>, author |-> <<"author", k>>,
   committer |-> <<"committer", k>>]

GitCommit(parent, tree, info) ==
  [parent |-> parent, tree |-> tree, message |-> info.message,
   author |-> info.author, committer |-> info.committer]

\* the commits reachable from head and not from base, oldest first
RECURSIVE UniqueCommits(_, _, _)
UniqueCommits(remote, base, head) ==
  IF head = 0 \/ IsAncestor(remote, head, base) THEN <<>>
  ELSE Append(UniqueCommits(remote, base, remote[head].parent), head)

\* the file list of the remote's comparison of two trees: a path whose content
\* moved unchanged to a new path is reported once, as renamed
IsRename(P, C, from, to) ==
  P[from] # None /\ C[from] = None /\ P[to] = None /\ C[to] = P[from]

RenamedFile(C, from, to) ==
  [status |-> "renamed", filename |-> to, previous_filename |-> from, sha |-> C[to]]

ChangedFile(P, C, p) ==
  IF P[p] = C[p] THEN <<>>
  ELSE IF C[p] = None
    THEN <<[status |-> "removed", filename |-> p, previous_filename |-> None, sha |-> P[p]]>>
  ELSE IF P[p] = None
    THEN <<[status |-> "added", filename |-> p, previous_filename |-> None, sha |-> C[p]]>>
  ELSE <<[status |-> "modified", filename |-> p, previous_filename |-> None, sha |-> C[p]]>>

CompareFiles(P, C) ==
  IF IsRename(P, C, "a.md", "b.md") THEN <<RenamedFile(C, "a.md", "b.md")>>
  ELSE IF IsRename(P, C, "b.md", "a.md") THEN <<RenamedFile(C, "b.md", "a.md")>>
  ELSE ChangedFile(P, C, "a.md") \o ChangedFile(P, C, "b.md")

\* mutation of treeFiles: a renamed file keeps its previous path
RECURSIVE treeFilesKeepPrevious(_)
treeFilesKeepPrevious(files) ==
  IF files = <<>> THEN <<>>
  ELSE LET file == Head(files) IN
    (IF file.status = "removed" THEN <<[sha |-> None, path |-> file.filename]>>
     ELSE <<[sha |-> file.sha, path |-> file.filename]>>)
    \o treeFilesKeepPrevious(Tail(files))

\* rebaseSingleCommit: the tree entries of a file list
RECURSIVE treeFiles(_)
treeFiles(files) ==
  IF files = <<>> THEN <<>>
  ELSE LET file == Head(files) IN
    (IF file.status = "removed" THEN <<[sha |-> None, path |-> file.filename]>>
     ELSE IF file.status = "renamed"
       THEN <<[sha |-> None, path |-> file.previous_filename],
              [sha |-> file.sha, path |-> file.filename]>>
     ELSE <<[sha |-> file.sha, path |-> file.filename]>>)
    \o treeFiles(Tail(files))

\* createTree: the tree of base_tree with the entries applied in their order
RECURSIVE createTree(_, _)
createTree(baseTree, tree) ==
  IF tree = <<>> THEN baseTree
  ELSE createTree([baseTree EXCEPT ![Head(tree).path] = Head(tree).sha], Tail(tree))

\* mutation of RebasedCommit: the author and committer are left to the server
RebasedCommitServerAuthor(remote, baseCommit, commitToRebase, tree) ==
  [parent |-> baseCommit, tree |-> tree, message |-> remote[commitToRebase].message,
   author |-> <<"author", 0>>, committer |-> <<"committer", 0>>]

\* rebaseSingleCommit: the commit it asks createCommit for
RebasedCommit(remote, baseCommit, commitToRebase, tree) ==
  [parent |-> baseCommit, tree |-> tree, message |-> remote[commitToRebase].message,
   author |-> remote[commitToRebase].author, committer |-> remote[commitToRebase].committer]

\* mutation of NoReplayNeeded: only an empty list of commits needs no replay
NoReplayNeededOnlyEmpty(remote, baseCommit, cs) == Len(cs) = 0

\* rebaseCommits: the parent of the first commit already matches the base
NoReplayNeeded(remote, baseCommit, cs) ==
  Len(cs) = 0 \/ remote[cs[1]].parent = baseCommit

\* last(commits), undefined (0) for an empty list
LastOf(cs) == IF Len(cs) = 0 THEN 0 ELSE cs[Len(cs)]

\* a repository: a fork point, a default branch that stayed there or moved on
\* by one commit, and an entry branch of up to MaxCommits commits, each with a
\* tree that differs from its parent's
BranchCommits(first, T0, ts) ==
  [i \in 1..Len(ts) |->
     GitCommit(IF i = 1 THEN 1 ELSE first + i - 2, ts[i], CommitInfo(first + i - 1))]

RebaseInit ==
  /\ StoreInit
  /\ metaRef = 0
  /\ codec = IdleCodec
  /\ wf = IdleWorkflow
  /\ up = IdleUpdate
  /\ lu = IdleListing
  /\ pb = IdlePatch
  /\ \E T0 \in RepoTrees, moved \in BOOLEAN, TB \in RepoTrees, n \in 0..MaxCommits :
       \E ts \in [1..n -> RepoTrees] :
         /\ IF moved THEN TB # T0 ELSE TB = T0
         /\ \A i \in 1..n : ts[i] # (IF i = 1 THEN T0 ELSE ts[i - 1])
         /\ LET trunk == IF moved
                           THEN <<GitCommit(0, T0, CommitInfo(1)), GitCommit(1, TB, CommitInfo(2))>>
                           ELSE <<GitCommit(0, T0, CommitInfo(1))>>
                remote == trunk \o BranchCommits(Len(trunk) + 1, T0, ts)
            IN rb = [IdleRebase EXCEPT !.remote = remote, !.defaultTip = Len(trunk),
                                       !.head = IF n = 0 THEN 1 ELSE Len(remote)]

\* rebaseBranch: compareBranchToDefault, then the decision of rebaseCommits
rebaseBranch ==
  /\ rb.pc = "idle"
  /\ \E ok \in BOOLEAN :
       IF ~ok THEN rb' = [rb EXCEPT !.pc = "failed"]
       ELSE LET baseCommit == rb.defaultTip
                cs == UniqueCommits(rb.remote, rb.defaultTip, rb.head)
            IN IF NoReplayNeeded(rb.remote, baseCommit, cs)
                 THEN rb' = [rb EXCEPT !.pc = "done", !.baseCommit = baseCommit,
                                       !.commits = cs, !.result = LastOf(cs)]
                 ELSE rb' = [rb EXCEPT !.pc = "diff", !.baseCommit = baseCommit,
                                       !.commits = cs, !.i = 1, !.newParent = baseCommit,
                                       !.replayed = TRUE]
  /\ UNCHANGED <<storeVars, codec, wf, up, lu, pb>>

\* rebaseSingleCommit: the diff of the commit against its own parent
getCommitsDiff ==
  /\ rb.pc = "diff"
  /\ \E ok \in BOOLEAN :
       IF ~ok THEN rb' = [rb EXCEPT !.pc = "failed"]
       ELSE LET commitToRebase == rb.commits[rb.i] IN
         rb' = [rb EXCEPT !.pc = "tree",
                  !.files = CompareFiles(rb.remote[rb.remote[commitToRebase].parent].tree,
                                         rb.remote[commitToRebase].tree)]
  /\ UNCHANGED <<storeVars, codec, wf, up, lu, pb>>

\* rebaseSingleCommit: updateTree(baseCommit.sha, treeFiles)
rebaseUpdateTree ==
  /\ rb.pc = "tree"
  /\ \E ok \in BOOLEAN :
       IF ~ok THEN rb' = [rb EXCEPT !.pc = "failed"]
       ELSE rb' = [rb EXCEPT !.pc = "commit", !.trees = @ + 1,
                     !.tree = createTree(rb.remote[rb.newParent].tree, treeFiles(rb.files))]
  /\ UNCHANGED <<storeVars, codec, wf, up, lu, pb>>

\* mutation of rebaseCreateCommit: the entry branch is moved to each commit
\* the replay creates
rebaseCreateCommitMovingBranch ==
  /\ rb.pc = "commit"
  /\ \E ok \in BOOLEAN :
       IF ~ok THEN rb' = [rb EXCEPT !.pc = "failed"] /\ up' = up
       ELSE LET new == RebasedCommit(rb.remote, rb.newParent, rb.commits[rb.i], rb.tree)
                sha == Len(rb.remote) + 1
            IN /\ rb' = [rb EXCEPT
                   !.remote = Append(@, new), !.created = Append(@, sha),
                   !.newParent = sha, !.tree = <<>>, !.files = <<>>,
                   !.i = IF rb.i = Len(rb.commits) THEN 0 ELSE rb.i + 1,
                   !.pc = IF rb.i = Len(rb.commits) THEN "done" ELSE "diff",
                   !.result = IF rb.i = Len(rb.commits) THEN sha ELSE 0]
               /\ up' = [up EXCEPT !.branch = sha]
  /\ UNCHANGED <<storeVars, codec, wf, lu, pb>>

\* rebaseSingleCommit: createCommit on the new tree; rebaseCommits goes on with
\* the next commit, the new commit being its base
rebaseCreateCommit ==
  /\ rb.pc = "commit"
  /\ \E ok \in BOOLEAN :
       IF ~ok THEN rb' = [rb EXCEPT !.pc = "failed"]
       ELSE LET new == RebasedCommit(rb.remote, rb.newParent, rb.commits[rb.i], rb.tree)
                sha == Len(rb.remote) + 1
            IN rb' = [rb EXCEPT
                 !.remote = Append(@, new), !.created = Append(@, sha),
                 !.newParent = sha, !.tree = <<>>, !.files = <<>>,
                 !.i = IF rb.i = Len(rb.commits) THEN 0 ELSE rb.i + 1,
                 !.pc = IF rb.i = Len(rb.commits) THEN "done" ELSE "diff",
                 !.result = IF rb.i = Len(rb.commits) THEN sha ELSE 0]
  /\ UNCHANGED <<storeVars, codec, wf, up, lu, pb>>

RebaseNext ==
  \/ rebaseBranch
  \/ getCommitsDiff
  \/ rebaseUpdateTree
  \/ rebaseCreateCommit

\* rebaseBranch on every repository within the bounds
RebaseSpec == RebaseInit /\ [][RebaseNext]_vars

----------------------------------------------------------------------------
(***************************************************************************)
(* The editorial workflow of one entry: its branch, its pull requests, the *)
(* default branch and its Metadata document, worked on by one operation at *)
(* a time, by the calls an operation leaves running behind it, and by the  *)
(* maintainers of the origin repository.                                   *)
(***************************************************************************)
Statuses == {"draft", "pending_review", "pending_publish"}
InitialStatuses == {"draft", "pending_review"}
CURRENT_METADATA_VERSION == "1"
Threads == {"fg", "bg"}

\* a pull request head as Metadata records it: the sha of its commit, or the
\* whole head object of the response
NoHead == [kind |-> "none", sha |-> [parent |-> 0, entry |-> None]]
HeadSha(sha) == [kind |-> "sha", sha |-> sha]
HeadObject(sha) == [kind |-> "object", sha |-> sha]

\* a commit of the entry: its sha stands for its parent and its files
NoBranch == [parent |-> 0, entry |-> None]
EntryCommit(parent, entry) == [parent |-> parent, entry |-> entry]

NoPR == [number |-> 0, head |-> NoHead]
NoDoc == [pr |-> NoPR, status |-> None, version |-> None, objects |-> None]

IdleOp ==
  [name |-> "none", pc |-> "idle", status |-> None, metadata |-> NoDoc, branchData |-> 0,
   commit |-> NoBranch, pr |-> NoPR, state |-> None, merged |-> FALSE, result |-> "none",
   error |-> "none", prsBefore |-> 0, trees |-> 0, commits |-> 0, patches |-> 0,
   mergeMethod |-> None, after |-> "none", disturbed |-> FALSE]

Fg == wf.th.fg
Idle(t) == wf.th[t].pc \in {"idle", "done"}

\* the end of a call: the caller of a foreground call gets its result (the
\* Metadata a reconciliation returns is op.metadata, NoDoc for undefined), the
\* result of a call nobody waits for is lost
FinishWith(t, op, result, error) ==
  IF t # "fg" THEN IdleOp
  ELSE IF result = "ok"
    THEN [IdleOp EXCEPT !.name = op.name, !.status = op.status, !.pc = "done",
                        !.after = op.after, !.metadata = op.metadata, !.state = op.state,
                        !.result = result]
  ELSE [IdleOp EXCEPT !.name = op.name, !.status = op.status, !.pc = "done",
                      !.after = op.after, !.result = result, !.error = error]

Finish(t, result, error) == FinishWith(t, wf.th[t], result, error)

Resolve(t) == Finish(t, "ok", "none")
Reject(t, error) == Finish(t, "error", error)

\* the start of a call; after is the operation that resolved right before it
Begin(name, pc, status) ==
  [IdleOp EXCEPT !.name = name, !.pc = pc, !.status = status, !.prsBefore = Len(wf.prs),
                 !.after = IF wf.th.fg.result = "ok" THEN wf.th.fg.name ELSE "none"]

\* mutation of MergeMethodOf: always a merge commit
MergeMethodOfAlwaysMerge(squashMerges) == "merge"

\* this.mergeMethod
MergeMethodOf(squashMerges) == IF squashMerges THEN "squash" ELSE "merge"

\* the configurations and the repository an entry is created in: the default
\* branch at its first commit, no entry branch, no pull request, no Metadata
WorkflowStart(oa, squash, initial) ==
  [pc |-> "on", useOpenAuthoring |-> oa, mergeMethod |-> MergeMethodOf(squash),
   initialWorkflowStatus |-> initial,
   default |-> [sha |-> 1, entry |-> None], branch |-> NoBranch,
   prs |-> <<>>, doc |-> NoDoc, cache |-> NoDoc, semHeld |-> FALSE,
   th |-> [t \in Threads |-> IdleOp], started |-> 0, external |-> 0, createdAs |-> None]

WorkflowInit ==
  /\ StoreInit
  /\ metaRef = 0
  /\ codec = IdleCodec
  /\ rb = IdleRebase
  /\ up = IdleUpdate
  /\ lu = IdleListing
  /\ pb = IdlePatch
  /\ \E oa \in BOOLEAN, squash \in BOOLEAN, initial \in InitialStatuses :
       wf = WorkflowStart(oa, squash, initial)

WorkflowUnchanged == UNCHANGED <<storeVars, codec, rb, up, lu, pb>>

(***************************************************************************)
(* The Metadata store as the workflow uses it: one document, written in    *)
(* one step under the semaphore, read through the cache.                   *)
(***************************************************************************)
\* storeMetadata of thread t, going on at pc next: a failed write rejects and
\* keeps the semaphore
StoreStep(t, data, next) ==
  /\ ~wf.semHeld
  /\ \E ok \in BOOLEAN :
       IF ok
         THEN wf' = [wf EXCEPT !.doc = data, !.cache = data, !.th[t] = next]
         ELSE wf' = [wf EXCEPT !.semHeld = TRUE, !.th[t] = Reject(t, "Transport")]

\* deleteMetadata of thread t: it resolves whether or not its write succeeded,
\* and it leaves the cache as it is
DeleteStep(t, next) ==
  /\ ~wf.semHeld
  /\ \E ok \in BOOLEAN :
       wf' = [wf EXCEPT !.doc = IF ok THEN NoDoc ELSE @, !.th[t] = next]

\* a remote call of thread t without effect on the remote that may fail
ReadStep(t, next) ==
  \E ok \in BOOLEAN :
    wf' = [wf EXCEPT !.th[t] = IF ok THEN next ELSE Reject(t, "Transport")]

At(t, names, pc) == wf.th[t].name \in names /\ wf.th[t].pc = pc
Goto(t, pc) == [wf.th[t] EXCEPT !.pc = pc]

(***************************************************************************)
(* The operations the caller starts, one at a time.                        *)
(***************************************************************************)
\* the Metadata of a new entry
NewEntryMetadata(pr, status, initialWorkflowStatus) ==
  [pr |-> pr,
   status |-> IF status # None THEN status ELSE initialWorkflowStatus,
   version |-> CURRENT_METADATA_VERSION,
   objects |-> "e1"]

MayBegin == Idle("fg") /\ wf.started < MaxOps

BeginOp(op) == wf' = [wf EXCEPT !.th.fg = op, !.started = @ + 1]

\* editorialWorkflowGit for an entry that is not in the workflow; status is
\* options.status
StartCreate(status) ==
  /\ MayBegin
  /\ wf' = [wf EXCEPT
       !.th.fg = Begin("create", "getDefaultBranch", status),
       !.started = @ + 1,
       !.createdAs =
          IF @ # "other" /\ NewEntryMetadata(NoPR, status, wf.initialWorkflowStatus).status = "draft"
            THEN "draft" ELSE "other"]
  /\ WorkflowUnchanged

StartStatus(status) ==
  /\ MayBegin
  /\ BeginOp(Begin("status", "retrieveMetadata", status))
  /\ WorkflowUnchanged

StartPublish ==
  /\ MayBegin
  /\ BeginOp(Begin("publish", "retrieveMetadata", None))
  /\ WorkflowUnchanged

StartDelete ==
  /\ MayBegin
  /\ BeginOp(Begin("delete", "retrieveMetadata", None))
  /\ WorkflowUnchanged

\* getUpdatedOpenAuthoringMetadata, called without metadata; at most one call
\* it does not wait for is running
StartReconcile ==
  /\ MayBegin
  /\ wf.useOpenAuthoring
  /\ Idle("bg")
  /\ BeginOp(Begin("reconcile", "retrieveMetadata", None))
  /\ WorkflowUnchanged

(***************************************************************************)
(* Creating an entry: editorialWorkflowGit, lines 830-873.                 *)
(***************************************************************************)
\* mutation of NewEntryPc: Metadata is written right after the commit
NewEntryPcMetadataFirst(oa, pc) ==
  IF pc = "commit" THEN "storeMetadata" ELSE "done"

\* the step of editorialWorkflowGit that follows step pc
NewEntryPc(oa, pc) ==
  IF pc = "commit" THEN "createBranch"
  ELSE IF pc = "createBranch" THEN (IF oa THEN "storeMetadata" ELSE "createPR")
  ELSE IF pc = "createPR" THEN "storeMetadata"
  ELSE "done"

\* getDefaultBranch of editorialWorkflowGit and of forceMergePR
wfGetDefaultBranch ==
  /\ At("fg", {"create", "publish"}, "getDefaultBranch")
  /\ ReadStep("fg", [Fg EXCEPT !.pc = "updateTree", !.branchData = wf.default.sha])
  /\ WorkflowUnchanged

\* updateTree(branchData.commit.sha, files)
wfUpdateTree ==
  /\ At("fg", {"create", "publish"}, "updateTree")
  /\ ReadStep("fg", [Fg EXCEPT !.pc = "commit", !.trees = @ + 1])
  /\ WorkflowUnchanged

\* commit(message, changeTree): a commit on the tip that was read, with the
\* files of the entry (create) or of Metadata.objects (forced merge)
wfCommit ==
  /\ At("fg", {"create", "publish"}, "commit")
  /\ \E ok \in BOOLEAN :
       IF ~ok THEN wf' = [wf EXCEPT !.th.fg = Reject("fg", "Transport")]
       ELSE wf' = [wf EXCEPT
              !.th.fg = [Fg EXCEPT
                 !.commit = EntryCommit(Fg.branchData, IF Fg.name = "create" THEN "e1"
                                                       ELSE Fg.metadata.objects),
                 !.commits = @ + 1,
                                   !.pc = IF Fg.name = "create"
                                            THEN NewEntryPc(wf.useOpenAuthoring, "commit")
                                            ELSE "patchBranch"]]
  /\ WorkflowUnchanged

\* createBranch(branchName, commitResponse.sha)
wfCreateBranch ==
  /\ At("fg", {"create"}, "createBranch")
  /\ \E ok \in BOOLEAN :
       IF ~ok THEN wf' = [wf EXCEPT !.th.fg = Reject("fg", "Transport")]
       ELSE IF wf.branch # NoBranch
         THEN wf' = [wf EXCEPT !.th.fg = Reject("fg", "Reference already exists")]
       ELSE wf' = [wf EXCEPT !.branch = Fg.commit,
                     !.th.fg = Goto("fg", NewEntryPc(wf.useOpenAuthoring, "createBranch"))]
  /\ WorkflowUnchanged

\* createPR(title, head): the remote refuses a pull request for a branch
\* that does not exist or that has an open pull request; editorialWorkflowGit
\* keeps the sha of the head, updateUnpublishedEntryStatus the head itself
HasOpenPR == \E n \in 1..Len(wf.prs) : wf.prs[n].state = "open"

wfCreatePR ==
  /\ At("fg", {"create", "status"}, "createPR")
  /\ \E ok \in BOOLEAN :
       IF ~ok THEN wf' = [wf EXCEPT !.th.fg = Reject("fg", "Transport")]
       ELSE IF wf.branch = NoBranch \/ HasOpenPR
         THEN wf' = [wf EXCEPT !.th.fg = Reject("fg", "Validation Failed")]
       ELSE wf' = [wf EXCEPT
              !.prs = Append(@, [state |-> "open", merged |-> FALSE, method |-> None]),
              !.th.fg = [Fg EXCEPT
                 !.pc = IF Fg.name = "create"
                          THEN NewEntryPc(wf.useOpenAuthoring, "createPR")
                          ELSE "storeMetadata",
                 !.pr = [number |-> Len(wf.prs) + 1,
                         head |-> IF Fg.name = "create" THEN HeadSha(wf.branch)
                                  ELSE HeadObject(wf.branch)]]]
  /\ WorkflowUnchanged

(***************************************************************************)
(* Metadata reads and writes of the operations.                            *)
(***************************************************************************)
\* mutation of OpenAuthoringRejects: no status is refused
OpenAuthoringRejectsNothing(status) == FALSE

\* updateUnpublishedEntryStatus: the status an open authoring entry may not get
OpenAuthoringRejects(status) == status = "pending_publish"

\* what an operation does with the Metadata it retrieved
RetrieveCont(t, m) ==
  LET op == [wf.th[t] EXCEPT !.metadata = m]
      name == op.name
  IN IF name = "status" THEN
       [wf.th EXCEPT ![t] =
          IF ~wf.useOpenAuthoring THEN [op EXCEPT !.pc = "storeMetadata"]
          ELSE IF OpenAuthoringRejects(op.status) THEN FinishWith(t, op, "error", "Error")
          ELSE IF m.pr # NoPR THEN [op EXCEPT !.pc = "getPullRequest"]
          ELSE IF op.status = "pending_review" THEN [op EXCEPT !.pc = "createPR"]
          ELSE FinishWith(t, op, "ok", "none")]
     ELSE IF name = "publish" THEN
       [wf.th EXCEPT ![t] =
          IF m.pr = NoPR THEN FinishWith(t, op, "error", "TypeError")
          ELSE [op EXCEPT !.pc = "mergePR"]]
     ELSE IF name = "delete" THEN
       [wf.th EXCEPT ![t] =
          IF m.pr # NoPR THEN [op EXCEPT !.pc = "closePR"]
          ELSE [op EXCEPT !.pc = "deleteBranch"]]
     ELSE \* reconcile: the caller gets newMetadata, the write is not awaited
       IF m.pr = NoPR /\ m.status # "draft"
         THEN [fg |-> FinishWith("fg", [op EXCEPT !.metadata.status = "draft"], "ok", "none"),
               bg |-> [Begin("store", "storeMetadata", "draft") EXCEPT !.metadata = m]]
       ELSE IF m.pr # NoPR THEN [wf.th EXCEPT ![t] = [op EXCEPT !.pc = "getPullRequest"]]
       ELSE [wf.th EXCEPT ![t] = FinishWith(t, op, "ok", "none")]

\* retrieveMetadata of thread t: the cached document while the cache entry is
\* valid, else the document of the remote, else Not Found; RetrieveCont is
\* what the threads go on with once the Metadata is retrieved
RetrieveStep(t) ==
  IF wf.cache # NoDoc
    THEN wf' = [wf EXCEPT !.th = RetrieveCont(t, wf.cache)]
    ELSE \E ok \in BOOLEAN :
      IF ~ok THEN wf' = [wf EXCEPT !.th[t] = Reject(t, "Transport")]
      ELSE IF wf.doc = NoDoc THEN wf' = [wf EXCEPT !.th[t] = Reject(t, "Not Found")]
      ELSE wf' = [wf EXCEPT !.th = RetrieveCont(t, wf.doc)]

wfRetrieveMetadata(t) ==
  /\ At(t, {"status", "publish", "delete", "reconcile"}, "retrieveMetadata")
  /\ RetrieveStep(t)
  /\ WorkflowUnchanged

\* mutation of StoredMetadata: a pull request created on the way is not recorded
StoredMetadataWithoutPr(op, initialWorkflowStatus) ==
  IF op.name = "create" THEN NewEntryMetadata(op.pr, op.status, initialWorkflowStatus)
  ELSE [op.metadata EXCEPT !.status = op.status]

\* the Metadata an operation stores
StoredMetadata(op, initialWorkflowStatus) ==
  IF op.name = "create" THEN NewEntryMetadata(op.pr, op.status, initialWorkflowStatus)
  ELSE IF op.name = "status"
    THEN [op.metadata EXCEPT !.status = op.status,
                             !.pr = IF op.pr # NoPR THEN op.pr ELSE @]
  ELSE [op.metadata EXCEPT !.status = op.status]

\* the end of an operation whose write of data succeeded: the reconciliation
\* returns the Metadata it stored
StoreDone(t, data) ==
  IF wf.th[t].name = "reconcile"
    THEN FinishWith(t, [wf.th[t] EXCEPT !.metadata = data], "ok", "none")
    ELSE Resolve(t)

\* storeMetadata; editorialWorkflowGit first waits for the user it asked for
wfStoreMetadata(t) ==
  /\ At(t, {"create", "status", "reconcile", "store"}, "storeMetadata")
  /\ \/ LET data == StoredMetadata(wf.th[t], wf.initialWorkflowStatus)
        IN StoreStep(t, data, StoreDone(t, data))
     \/ /\ wf.th[t].name = "create"
        /\ wf' = [wf EXCEPT !.th[t] = Reject(t, "Transport")]
  /\ WorkflowUnchanged

wfDeleteMetadata(t) ==
  /\ At(t, {"publish", "delete"}, "deleteMetadata")
  /\ DeleteStep(t, Resolve(t))
  /\ WorkflowUnchanged

(***************************************************************************)
(* Pull requests and the entry branch.                                     *)
(***************************************************************************)
\* mutation of StatusPrPc: the pull request is left as it is
StatusPrPcStoreOnly(state, status) ==
  IF state = "open" /\ status = "draft" THEN "storeMetadata"
  ELSE IF state = "closed" /\ status = "pending_review" THEN "storeMetadata"
  ELSE "return"

\* updateUnpublishedEntryStatus: what it does to a recorded pull request
StatusPrPc(state, status) ==
  IF state = "open" /\ status = "draft" THEN "closePR"
  ELSE IF state = "closed" /\ status = "pending_review" THEN "openPR"
  ELSE "return"

\* what an operation does with the state of the pull request it read
PullRequestCont(op, state, merged) ==
  LET got == [op EXCEPT !.state = state, !.merged = merged]
      status == op.metadata.status
  IN IF op.name = "status" THEN
       [wf.th EXCEPT !.fg =
          IF StatusPrPc(state, op.status) = "return" THEN FinishWith("fg", got, "ok", "none")
          ELSE [got EXCEPT !.pc = StatusPrPc(state, op.status)]]
     ELSE \* reconcile
       IF state = "closed" /\ merged
         THEN [fg |-> FinishWith("fg", [got EXCEPT !.metadata = NoDoc], "ok", "none"),
               bg |-> Begin("delete", "retrieveMetadata", None)]
       ELSE IF state = "closed" /\ status # "draft"
         THEN [wf.th EXCEPT !.fg = [got EXCEPT !.pc = "storeMetadata", !.status = "draft"]]
       ELSE IF state = "open" /\ status # "pending_review"
         THEN [wf.th EXCEPT !.fg = [got EXCEPT !.pc = "storeMetadata",
                                               !.status = "pending_review"]]
       ELSE [wf.th EXCEPT !.fg = FinishWith("fg", got, "ok", "none")]

wfGetPullRequest ==
  /\ At("fg", {"status", "reconcile"}, "getPullRequest")
  /\ \E ok \in BOOLEAN :
       IF ~ok THEN wf' = [wf EXCEPT !.th.fg = Reject("fg", "Transport")]
       ELSE LET pr == wf.prs[Fg.metadata.pr.number]
            IN wf' = [wf EXCEPT !.th = PullRequestCont(Fg, pr.state, pr.merged)]
  /\ WorkflowUnchanged

\* closePR: closing a closed pull request changes nothing
wfClosePR(t) ==
  /\ At(t, {"status", "delete"}, "closePR")
  /\ \E ok \in BOOLEAN :
       IF ~ok THEN wf' = [wf EXCEPT !.th[t] = Reject(t, "Transport")]
       ELSE wf' = [wf EXCEPT
              !.prs[wf.th[t].metadata.pr.number].state = "closed",
              !.th[t] = Goto(t, IF wf.th[t].name = "status" THEN "storeMetadata"
                                ELSE "deleteBranch")]
  /\ WorkflowUnchanged

\* openPR: the remote reopens a closed pull request that was not merged, whose
\* branch exists and has no other open pull request
wfOpenPR ==
  /\ At("fg", {"status"}, "openPR")
  /\ \E ok \in BOOLEAN :
       LET n == Fg.metadata.pr.number IN
       IF ~ok THEN wf' = [wf EXCEPT !.th.fg = Reject("fg", "Transport")]
       ELSE IF wf.prs[n].merged \/ wf.branch = NoBranch \/ (wf.prs[n].state = "closed" /\ HasOpenPR)
         THEN wf' = [wf EXCEPT !.th.fg = Reject("fg", "Validation Failed")]
       ELSE wf' = [wf EXCEPT !.prs[n].state = "open", !.th.fg = Goto("fg", "storeMetadata")]
  /\ WorkflowUnchanged

\* deleteBranch: a branch that is already gone counts as deleted; the remote
\* closes the open pull requests of a branch that is deleted
ClosedAll(prs) == [n \in 1..Len(prs) |-> [prs[n] EXCEPT !.state = "closed"]]

wfDeleteBranch(t) ==
  /\ At(t, {"publish", "delete"}, "deleteBranch")
  /\ \E ok \in BOOLEAN :
       IF ~ok THEN wf' = [wf EXCEPT !.th[t] = Reject(t, "Transport")]
       ELSE wf' = [wf EXCEPT
              !.branch = NoBranch,
              !.prs = IF wf.branch # NoBranch THEN ClosedAll(@) ELSE @,
              !.th[t] = Goto(t, "deleteMetadata")]
  /\ WorkflowUnchanged

(***************************************************************************)
(* Publishing: mergePR and forceMergePR.                                   *)
(***************************************************************************)
MergeOutcomes == {"merged", "405", "error"}

\* the default branch after a merge of the entry branch
MergedDefault == [sha |-> wf.default.sha + 1, entry |-> wf.branch.entry]

\* mutation of MergeCatch: every error of the merge is answered by a forced merge
MergeCatchAlwaysForce(outcome) == "forceMergePR"

\* mergePR: the catch of the merge request forces the merge on an APIError with
\* status 405 and throws every other error again
MergeCatch(outcome) == IF outcome = "405" THEN "forceMergePR" ELSE "throw"

\* mergePR: the remote merges an open pull request when the sha it is given is
\* the head of the branch; it answers 405 when it does not merge, and any
\* other error else
wfMergePR ==
  /\ At("fg", {"publish"}, "mergePR")
  /\ \E outcome \in MergeOutcomes :
       LET pr == Fg.metadata.pr IN
       /\ outcome = "merged" =>
            /\ wf.prs[pr.number].state = "open"
            /\ wf.branch # NoBranch
            /\ pr.head = HeadSha(wf.branch)
       /\ outcome = "405" => pr.head.kind = "sha"
       /\ wf' = IF outcome = "merged" THEN
                  [wf EXCEPT
                     !.default = MergedDefault,
                     !.prs[pr.number] = [state |-> "closed", merged |-> TRUE,
                                         method |-> wf.mergeMethod],
                     !.th.fg = [Fg EXCEPT !.pc = "deleteBranch",
                                          !.mergeMethod = wf.mergeMethod]]
                ELSE IF MergeCatch(outcome) = "forceMergePR" THEN
                  [wf EXCEPT !.th.fg = [Fg EXCEPT !.pc = "getDefaultBranch",
                                                  !.mergeMethod = wf.mergeMethod,
                                                  !.state = outcome]]
                ELSE [wf EXCEPT !.th.fg = Reject("fg", "APIError")]
  /\ WorkflowUnchanged

\* forceMergePR: patchBranch(this.branch, response.sha), without the force option
ForceMergeForce == FALSE

\* the remote takes a ref update that is forced or a fast forward
DefaultPatchAccepted(force, newCommit) == force \/ newCommit.parent = wf.default.sha

wfPatchBranch ==
  /\ At("fg", {"publish"}, "patchBranch")
  /\ \E ok \in BOOLEAN :
       IF ~ok THEN wf' = [wf EXCEPT !.th.fg = Reject("fg", "Transport")]
       ELSE IF ~DefaultPatchAccepted(ForceMergeForce, Fg.commit)
         THEN wf' = [wf EXCEPT !.th.fg = Reject("fg", "Conflict")]
       ELSE wf' = [wf EXCEPT !.default = [sha |-> @.sha + 1, entry |-> Fg.commit.entry],
                     !.th.fg = [Fg EXCEPT !.pc = "deleteBranch", !.patches = @ + 1]]
  /\ WorkflowUnchanged

(***************************************************************************)
(* The maintainers of the origin repository, and time.                     *)
(***************************************************************************)
MayExternal == wf.external < MaxExternal

\* a commit is pushed to the default branch; a push is left out when nothing
\* can tell it from none: no operation holds the tip it read and the entry
\* branch does not start at the tip
ExternalPush ==
  /\ MayExternal
  /\ \/ ~Idle("fg") /\ Fg.branchData = wf.default.sha
     \/ wf.branch # NoBranch /\ wf.branch.parent = wf.default.sha
  /\ wf' = [wf EXCEPT !.default.sha = @ + 1, !.external = @ + 1]
  /\ WorkflowUnchanged

\* history: a maintainer acted on a pull request while the operation ran
Disturbed == [Fg EXCEPT !.disturbed = ~Idle("fg")]

\* a maintainer closes the open pull request
ExternalClosePR(n) ==
  /\ MayExternal
  /\ wf.prs[n].state = "open"
  /\ wf' = [wf EXCEPT !.prs[n].state = "closed", !.external = @ + 1, !.th.fg = Disturbed]
  /\ WorkflowUnchanged

\* a maintainer merges the open pull request
ExternalMergePR(n) ==
  /\ MayExternal
  /\ wf.prs[n].state = "open"
  /\ wf.branch # NoBranch
  /\ wf' = [wf EXCEPT
       !.default = MergedDefault,
       !.prs[n] = [state |-> "closed", merged |-> TRUE, method |-> "merge"],
       !.external = @ + 1,
       !.th.fg = Disturbed]
  /\ WorkflowUnchanged

\* five minutes have passed since the last storeMetadata when a call reads the
\* cache: the entry has expired (nothing else reads the cache)
CacheExpire ==
  /\ wf.cache # NoDoc
  /\ \E t \in Threads : wf.th[t].pc = "retrieveMetadata"
  /\ wf' = [wf EXCEPT !.cache = NoDoc]
  /\ WorkflowUnchanged

WorkflowNext ==
  \/ \E status \in Statuses \cup {None} : StartCreate(status)
  \/ \E status \in Statuses : StartStatus(status)
  \/ StartPublish
  \/ StartDelete
  \/ StartReconcile
  \/ wfGetDefaultBranch
  \/ wfUpdateTree
  \/ wfCommit
  \/ wfCreateBranch
  \/ wfCreatePR
  \/ \E t \in Threads : wfRetrieveMetadata(t)
  \/ \E t \in Threads : wfStoreMetadata(t)
  \/ \E t \in Threads : wfDeleteMetadata(t)
  \/ wfGetPullRequest
  \/ \E t \in Threads : wfClosePR(t)
  \/ wfOpenPR
  \/ \E t \in Threads : wfDeleteBranch(t)
  \/ wfMergePR
  \/ wfPatchBranch
  \/ ExternalPush
  \/ \E n \in 1..Len(wf.prs) : ExternalClosePR(n)
  \/ \E n \in 1..Len(wf.prs) : ExternalMergePR(n)
  \/ CacheExpire

\* the operations of the workflow on one entry, in both variants
WorkflowSpec == WorkflowInit /\ [][WorkflowNext]_vars

\* listUnpublishedBranches in the fork variant: the branch of the entry is in
\* the list when its reconciliation resolved with Metadata; a reconciliation
\* that was rejected or that returned nothing drops it
Listed(op) ==
  op.name = "reconcile" /\ op.pc = "done" /\ op.result = "ok" /\ op.metadata # NoDoc

\* a remote call of the deleteUnpublishedEntry nobody waits for fails
DeletionFails ==
  /\ wf.th.bg.name = "delete"
  /\ wf'.th.bg # wf.th.bg
  /\ IF wf.th.bg.pc = "deleteMetadata" THEN wf'.doc # NoDoc
     ELSE /\ wf'.th.bg.name # "delete"
          /\ ~(wf.th.bg.pc = "retrieveMetadata" /\ wf.cache = NoDoc /\ wf.doc = NoDoc)

\* a step of the call nobody waits for
BackgroundStep == WorkflowNext /\ wf.th.bg.pc \notin {"idle", "done"} /\ wf'.th.bg # wf.th.bg

\* a storeMetadata of another entry fails: the semaphore is the one of all
\* entries, and the failed write keeps it
OtherEntryStoreFails ==
  /\ ~wf.semHeld
  /\ wf' = [wf EXCEPT !.semHeld = TRUE]
  /\ WorkflowUnchanged

\* the workflow next to the writes of other entries, when the remote calls of
\* the deletion a reconciliation starts go through, and the call nobody waits
\* for is run whenever it can go on
WorkflowLiveNext == (WorkflowNext \/ OtherEntryStoreFails) /\ ~DeletionFails

WorkflowLiveSpec ==
  WorkflowInit /\ [][WorkflowLiveNext]_vars /\ WF_vars(BackgroundStep /\ ~DeletionFails)

----------------------------------------------------------------------------
(***************************************************************************)
(* Updating an entry that is in the workflow: editorialWorkflowGit with    *)
(* options.unpublished, lines 874-902.  The entry is the file a.md, its    *)
(* media file, if any, is b.md; the repository is the one of the rebase    *)
(* engine, which the update calls.                                         *)
(***************************************************************************)
EntryPath == "a.md"
MediaPath == "b.md"

\* a list of media files: none, or the one media file with its sha
MediaLists == {<<>>} \cup {<<[path |-> MediaPath, sha |-> sha]>> : sha \in Blobs}

\* the pull request Metadata records, number 0 and head 0 when it records none
UpdatePR(number, head) == [number |-> number, head |-> head]

\* the Metadata document of the entry
UpdateMetadata(pr, status, title, entry, files) ==
  [pr |-> pr, status |-> status, version |-> CURRENT_METADATA_VERSION, title |-> title,
   description |-> "description", branch |-> generateBranchName(<<"a">>),
   collection |-> "posts", user |-> "user",
   objects |-> [entry |-> entry, files |-> files]]

IdleUpdateOp ==
  [pc |-> "retrieveMetadata", branch |-> 0, branch0 |-> 0, doc |-> None, doc0 |-> None,
   entry |-> None, mediaFilesList |-> <<>>, metadata |-> None, treeFiles |-> <<>>,
   rebasedHead |-> 0, changeTree |-> <<>>, commit |-> 0, error |-> "none",
   patched |-> FALSE]

\* the repositories an update meets: a default branch without the entry that
\* stayed at the fork point or moved on by one commit, and an entry branch of
\* up to MaxCommits commits with the entry in each; Metadata records the media
\* file of the head, and the head as pr.head when it records a pull request
UpdateInit ==
  /\ StoreInit
  /\ metaRef = 0
  /\ codec = IdleCodec
  /\ wf = IdleWorkflow
  /\ lu = IdleListing
  /\ pb = IdlePatch
  /\ \E T0 \in {T \in RepoTrees : T[EntryPath] = None}, moved \in BOOLEAN,
        TB \in {T \in RepoTrees : T[EntryPath] = None}, n \in 0..MaxCommits :
       \E ts \in [1..n -> {T \in RepoTrees : T[EntryPath] # None}] :
         /\ IF moved THEN TB # T0 ELSE TB = T0
         /\ \A i \in 2..n : ts[i] # ts[i - 1]
         /\ LET trunk == IF moved
                           THEN <<GitCommit(0, T0, CommitInfo(1)), GitCommit(1, TB, CommitInfo(2))>>
                           ELSE <<GitCommit(0, T0, CommitInfo(1))>>
                remote == trunk \o BranchCommits(Len(trunk) + 1, T0, ts)
                head == IF n = 0 THEN 1 ELSE Len(remote)
                tree == remote[head].tree
                tracked == IF tree[MediaPath] = None THEN <<>>
                           ELSE <<[path |-> MediaPath, sha |-> tree[MediaPath]]>>
            IN \E hasPr \in BOOLEAN, entry \in Blobs, mediaFilesList \in MediaLists :
                 LET doc == UpdateMetadata(IF hasPr THEN UpdatePR(1, head) ELSE UpdatePR(0, 0),
                                           IF hasPr THEN "pending_review" ELSE "draft",
                                           "title", tree[EntryPath], tracked)
                 IN /\ rb = [IdleRebase EXCEPT !.pc = "off", !.remote = remote,
                                               !.defaultTip = Len(trunk), !.head = head]
                    /\ up = [IdleUpdateOp EXCEPT !.branch = head, !.branch0 = head,
                                                 !.doc = doc, !.doc0 = doc, !.entry = entry,
                                                 !.mediaFilesList = mediaFilesList]

UpdateUnchanged == UNCHANGED <<storeVars, codec, wf, lu, pb>>

UpdateFails(error) == up' = [up EXCEPT !.pc = "failed", !.error = error]

\* retrieveMetadata(contentKey), then the call of rebaseBranch(branchName)
upRetrieveMetadata ==
  /\ up.pc = "retrieveMetadata"
  /\ \E ok \in BOOLEAN :
       IF ~ok THEN UpdateFails("Transport") /\ rb' = rb
       ELSE /\ up' = [up EXCEPT !.pc = "rebase", !.metadata = up.doc]
            /\ rb' = [rb EXCEPT !.pc = "idle"]
  /\ UpdateUnchanged

\* the error of rebaseBranch propagates to the caller of the update
upRebaseRejected ==
  /\ up.pc = "rebase"
  /\ rb.pc = "failed"
  /\ UpdateFails("Transport")
  /\ rb' = rb
  /\ UpdateUnchanged

\* mutation of MediaFilesToRemove: every tracked media file is removed
RECURSIVE MediaFilesToRemoveAllTracked(_, _)
MediaFilesToRemoveAllTracked(metadataMediaFiles, mediaFilesList) ==
  IF metadataMediaFiles = <<>> THEN <<>>
  ELSE <<[path |-> Head(metadataMediaFiles).path, sha |-> None]>>
       \o MediaFilesToRemoveAllTracked(Tail(metadataMediaFiles), mediaFilesList)

\* differenceBy(metadataMediaFiles, mediaFilesList, 'path'), each with sha null
RECURSIVE MediaFilesToRemove(_, _)
MediaFilesToRemove(metadataMediaFiles, mediaFilesList) ==
  IF metadataMediaFiles = <<>> THEN <<>>
  ELSE LET file == Head(metadataMediaFiles)
           rest == MediaFilesToRemove(Tail(metadataMediaFiles), mediaFilesList)
       IN IF \E i \in 1..Len(mediaFilesList) : mediaFilesList[i].path = file.path
            THEN rest
            ELSE <<[path |-> file.path, sha |-> None]>> \o rest

\* files of persistFiles: mediaFiles.concat(entry)
UpdateFiles(mediaFilesList, entry) == mediaFilesList \o <<[path |-> EntryPath, sha |-> entry]>>

\* updateTree(rebasedHead.sha, mediaFilesToRemove.concat(files)); reading the
\* sha of an undefined rebasedHead throws
upUpdateTree ==
  /\ up.pc = "rebase"
  /\ rb.pc = "done"
  /\ IF rb.result = 0 THEN UpdateFails("TypeError")
     ELSE \E ok \in BOOLEAN :
       LET treeFilesOfUpdate ==
             MediaFilesToRemove(up.metadata.objects.files, up.mediaFilesList)
             \o UpdateFiles(up.mediaFilesList, up.entry)
       IN IF ~ok THEN UpdateFails("Transport")
          ELSE up' = [up EXCEPT !.pc = "commit", !.rebasedHead = rb.result,
                                !.treeFiles = treeFilesOfUpdate,
                                !.changeTree = createTree(rb.remote[rb.result].tree,
                                                          treeFilesOfUpdate)]
  /\ rb' = rb
  /\ UpdateUnchanged

\* the step of the update that follows step pc: await storeMetadata, then
\* return patchBranch
UpdateOrder(pc) ==
  IF pc = "commit" THEN "storeMetadata"
  ELSE IF pc = "storeMetadata" THEN "patchBranch"
  ELSE "done"

\* commit(options.commitMessage, changeTree): one parent, the rebased head
upCommit ==
  /\ up.pc = "commit"
  /\ \E ok \in BOOLEAN :
       IF ~ok THEN UpdateFails("Transport") /\ rb' = rb
       ELSE /\ rb' = [rb EXCEPT !.remote =
                        Append(@, GitCommit(up.rebasedHead, up.changeTree, CommitInfo(0)))]
            /\ up' = [up EXCEPT !.pc = UpdateOrder("commit"), !.commit = Len(rb.remote) + 1]
  /\ UpdateUnchanged

\* mutation of UpdatedMetadata: the document is built like that of a new
\* entry, with the initial status
UpdatedMetadataAsNew(metadata, commitSha, entry, mediaFilesList) ==
  [metadata EXCEPT
     !.pr = IF @.number # 0 THEN [@ EXCEPT !.head = commitSha] ELSE @,
     !.status = "draft",
     !.title = "new title",
     !.description = "new description",
     !.objects = [entry |-> entry, files |-> mediaFilesList]]

\* updatedMetadata: { ...metadata, pr, title, description, objects }
UpdatedMetadata(metadata, commitSha, entry, mediaFilesList) ==
  [metadata EXCEPT
     !.pr = IF @.number # 0 THEN [@ EXCEPT !.head = commitSha] ELSE @,
     !.title = "new title",
     !.description = "new description",
     !.objects = [entry |-> entry, files |-> mediaFilesList]]

\* storeMetadata(contentKey, updatedMetadata)
upStoreMetadata ==
  /\ up.pc = "storeMetadata"
  /\ \E ok \in BOOLEAN :
       IF ~ok THEN UpdateFails("Transport")
       ELSE up' = [up EXCEPT !.pc = UpdateOrder("storeMetadata"),
                             !.doc = UpdatedMetadata(up.metadata, up.commit, up.entry,
                                                     up.mediaFilesList)]
  /\ rb' = rb
  /\ UpdateUnchanged

\* patchBranch(branchName, commit.sha, { force: true })
upPatchBranch ==
  /\ up.pc = "patchBranch"
  /\ \E ok \in BOOLEAN :
       IF ~ok THEN UpdateFails("Transport")
       ELSE up' = [up EXCEPT !.pc = UpdateOrder("patchBranch"), !.branch = up.commit,
                             !.patched = TRUE]
  /\ rb' = rb
  /\ UpdateUnchanged

\* a step of rebaseBranch inside the update
upRebase ==
  /\ up.pc = "rebase"
  /\ RebaseNext

UpdateNext ==
  \/ upRetrieveMetadata
  \/ upRebase
  \/ upRebaseRejected
  \/ upUpdateTree
  \/ upCommit
  \/ upStoreMetadata
  \/ upPatchBranch

\* one update of an entry in every repository within the bounds
UpdateSpec == UpdateInit /\ [][UpdateNext]_vars

----------------------------------------------------------------------------
(***************************************************************************)
(* listUnpublishedBranches: the branches under refs/heads/cms, each with   *)
(* its pull request and its Metadata document, filtered through the open   *)
(* pull requests and migrated (non-fork variant) or reconciled (fork       *)
(* variant), the steps of the branches running side by side.  The cache of *)
(* Metadata is empty, as in a session that starts.                         *)
(***************************************************************************)
ListBranches == {"b1", "b2"}

\* the name of a branch as the remote lists it, and the name of a legacy
\* branch cms/<slug> in the current scheme, cms/<collection>/<slug>
ListedName(b) == <<"cms", b>>
NewBranchName(b) == <<"cms", "posts", b>>

\* a Metadata document of the listing: its version (None in the legacy
\* format), its status, and whether it records a pull request
ListMetadata(version, status, pr) == [version |-> version, status |-> status, pr |-> pr]
NoMetadata == ListMetadata(None, None, FALSE)

\* what the remote holds for a branch: the ref, the pull request whose head is
\* the branch ("other": open, into another base than the default branch), the
\* Metadata document, and the same three under the name of the current scheme
RemoteEntry(exists, pr, meta) ==
  [exists |-> exists, pr |-> pr, meta |-> meta,
   newExists |-> FALSE, newPr |-> "none", newMeta |-> NoMetadata]

\* the entries the non-fork variant leaves on the remote
NonForkEntries ==
  {RemoteEntry(exists, pr, meta) :
     exists \in BOOLEAN, pr \in {"none", "open", "closed", "other"},
     meta \in {NoMetadata} \cup {ListMetadata(v, "draft", TRUE) : v \in {CURRENT_METADATA_VERSION, None}}}

\* the entries the fork variant leaves on the remote: a recorded pull request
\* is open, closed or merged, an entry without one has none
ForkEntries ==
  {RemoteEntry(exists, "none", NoMetadata) : exists \in BOOLEAN}
  \cup {RemoteEntry(exists, "none", ListMetadata(v, status, FALSE)) :
          exists \in BOOLEAN, v \in {CURRENT_METADATA_VERSION, None},
          status \in {"draft", "pending_review"}}
  \cup {RemoteEntry(exists, pr, ListMetadata(v, status, TRUE)) :
          exists \in BOOLEAN, pr \in {"open", "closed", "merged"},
          v \in {CURRENT_METADATA_VERSION, None}, status \in {"draft", "pending_review"}}

\* the step of a branch: where it is, the Metadata it read, the branch it
\* resolves with, and the call it started without waiting for it
IdleTask ==
  [pc |-> "skip", metadata |-> NoMetadata, branch |-> <<>>, bg |-> "none", status |-> None]

ListingStart(oa, remote) ==
  [pc |-> "branches", useOpenAuthoring |-> oa, remote |-> remote, remote0 |-> remote,
   branches |-> {}, prs |-> {}, task |-> [b \in ListBranches |-> IdleTask],
   semHeld |-> FALSE, result |-> {}]

ListInit ==
  /\ StoreInit
  /\ metaRef = 0
  /\ codec = IdleCodec
  /\ rb = IdleRebase
  /\ wf = IdleWorkflow
  /\ up = IdleUpdate
  /\ pb = IdlePatch
  /\ \E oa \in BOOLEAN :
       \E remote \in [ListBranches -> IF oa THEN ForkEntries ELSE NonForkEntries] :
         lu = ListingStart(oa, remote)

ListUnchanged == UNCHANGED <<storeVars, codec, rb, wf, up, pb>>

Settled(task) == task.pc \in {"skip", "ok", "removed", "failed"}

\* request(repoURL/git/refs/heads/cms).catch(replace404WithEmptyArray): the
\* refs under the prefix, none when the remote answers 404; any other error
\* fails the listing
listBranches ==
  /\ lu.pc = "branches"
  /\ \E ok \in BOOLEAN :
       IF ~ok THEN lu' = [lu EXCEPT !.pc = "failed"]
       ELSE LET found == {b \in ListBranches : lu.remote[b].exists}
            IN IF lu.useOpenAuthoring
                 THEN lu' = [lu EXCEPT !.pc = "map", !.branches = found,
                               !.task = [b \in ListBranches |->
                                           IF b \in found THEN [IdleTask EXCEPT !.pc = "retrieve"]
                                           ELSE IdleTask]]
                 ELSE lu' = [lu EXCEPT !.pc = "prs", !.branches = found]
  /\ ListUnchanged

\* mutation of OpenPRs: the state of the pull requests is not asked for
OpenPRsAnyState(remote) == {b \in ListBranches : remote[b].pr \in {"open", "closed"}}

\* getPRsForBranchName(CMS_BRANCH_PREFIX): the heads of the open pull requests
\* into the default branch
OpenPRs(remote) == {b \in ListBranches : remote[b].pr = "open"}

\* the filter of onlyBranchesWithOpenPRs: prs.some(pr => pr.head.ref === name)
WithOpenPR(branches, prs) == {b \in branches : \E head \in prs : head = b}

\* getPRsForBranchName, then the filter; migrateBranch starts for every branch
\* that is kept
listPRs ==
  /\ lu.pc = "prs"
  /\ \E ok \in BOOLEAN :
       IF ~ok THEN lu' = [lu EXCEPT !.pc = "failed"]
       ELSE LET prs == OpenPRs(lu.remote)
                kept == WithOpenPR(lu.branches, prs)
            IN lu' = [lu EXCEPT !.pc = "map", !.prs = prs,
                        !.task = [b \in ListBranches |->
                                    IF b \in kept THEN [IdleTask EXCEPT !.pc = "retrieve"]
                                    ELSE IdleTask]]
  /\ ListUnchanged

TaskFails(b) == lu' = [lu EXCEPT !.task[b].pc = "failed"]

\* mutation of MigrateNext: the old entry is torn down first
MigrateNextTearDownFirst(pc) ==
  IF pc = "retrieve" THEN "closePR"
  ELSE IF pc = "closePR" THEN "deleteBranch"
  ELSE IF pc = "deleteBranch" THEN "deleteMetadata"
  ELSE IF pc = "deleteMetadata" THEN "createBranch"
  ELSE IF pc = "createBranch" THEN "createPR"
  ELSE IF pc = "createPR" THEN "storeMetadata"
  ELSE "ok"

\* migrateToVersion1: the step that follows step pc; it returns newBranch
\* after the last
MigrateNext(pc) ==
  IF pc = "retrieve" THEN "createBranch"
  ELSE IF pc = "createBranch" THEN "createPR"
  ELSE IF pc = "createPR" THEN "storeMetadata"
  ELSE IF pc = "storeMetadata" THEN "closePR"
  ELSE IF pc = "closePR" THEN "deleteBranch"
  ELSE IF pc = "deleteBranch" THEN "deleteMetadata"
  ELSE "ok"

\* the branch the step of b resolves with once migrateToVersion1 has returned
MigratedBranch(b, pc, branch) == IF MigrateNext(pc) = "ok" THEN NewBranchName(b) ELSE branch

\* what migrateBranch and getUpdatedOpenAuthoringMetadata do with the Metadata
\* they retrieved
AfterRetrieve(oa, b, m) ==
  LET task == [lu.task[b] EXCEPT !.metadata = m]
  IN IF ~oa THEN
       IF m.version = None THEN [task EXCEPT !.pc = MigrateNext("retrieve")]
       ELSE [task EXCEPT !.pc = "ok", !.branch = ListedName(b)]
     ELSE IF ~m.pr /\ m.status # "draft"
       THEN [task EXCEPT !.pc = "ok", !.branch = ListedName(b), !.bg = "storeMetadata"]
     ELSE IF m.pr THEN [task EXCEPT !.pc = "getPullRequest"]
     ELSE [task EXCEPT !.pc = "ok", !.branch = ListedName(b)]

\* retrieveMetadata(contentKeyFromRef(branch.ref)) of the step of branch b
listRetrieveMetadata(b) ==
  /\ lu.pc = "map"
  /\ lu.task[b].pc = "retrieve"
  /\ \E ok \in BOOLEAN :
       IF ~ok \/ lu.remote[b].meta = NoMetadata THEN TaskFails(b)
       ELSE lu' = [lu EXCEPT !.task[b] = AfterRetrieve(lu.useOpenAuthoring, b, lu.remote[b].meta)]
  /\ ListUnchanged

\* migrateToVersion1: createBranch(newBranchName, metaData.pr.head)
migrateCreateBranch(b) ==
  /\ lu.pc = "map"
  /\ lu.task[b].pc = "createBranch"
  /\ \E ok \in BOOLEAN :
       IF ~ok \/ lu.remote[b].newExists THEN TaskFails(b)
       ELSE lu' = [lu EXCEPT !.remote[b].newExists = TRUE,
                             !.task[b].pc = MigrateNext("createBranch"),
                             !.task[b].branch = MigratedBranch(b, "createBranch", @)]
  /\ ListUnchanged

\* migrateToVersion1: createPR(metaData.commitMessage, newBranchName)
migrateCreatePR(b) ==
  /\ lu.pc = "map"
  /\ lu.task[b].pc = "createPR"
  /\ \E ok \in BOOLEAN :
       IF ~ok \/ ~lu.remote[b].newExists \/ lu.remote[b].newPr = "open" THEN TaskFails(b)
       ELSE lu' = [lu EXCEPT !.remote[b].newPr = "open",
                             !.task[b].pc = MigrateNext("createPR"),
                             !.task[b].branch = MigratedBranch(b, "createPR", @)]
  /\ ListUnchanged

\* the Metadata a step stores: migrateToVersion1 writes the document of the
\* new key, the reconciliation the new status
listStoreMetadata(b) ==
  /\ lu.pc = "map"
  /\ lu.task[b].pc = "storeMetadata"
  /\ ~lu.semHeld
  /\ \E ok \in BOOLEAN :
       IF ~ok THEN lu' = [lu EXCEPT !.semHeld = TRUE, !.task[b].pc = "failed"]
       ELSE IF lu.useOpenAuthoring
         THEN lu' = [lu EXCEPT !.remote[b].meta = [lu.task[b].metadata EXCEPT
                                                     !.status = lu.task[b].status],
                               !.task[b].pc = "ok", !.task[b].branch = ListedName(b)]
       ELSE lu' = [lu EXCEPT !.remote[b].newMeta = [lu.task[b].metadata EXCEPT
                                                      !.version = "1"],
                             !.task[b].pc = MigrateNext("storeMetadata"),
                             !.task[b].branch = MigratedBranch(b, "storeMetadata", @)]
  /\ ListUnchanged

\* migrateToVersion1: closePR(metaData.pr)
migrateClosePR(b) ==
  /\ lu.pc = "map"
  /\ lu.task[b].pc = "closePR"
  /\ \E ok \in BOOLEAN :
       IF ~ok THEN TaskFails(b)
       ELSE lu' = [lu EXCEPT !.remote[b].pr = "closed",
                             !.task[b].pc = MigrateNext("closePR"),
                             !.task[b].branch = MigratedBranch(b, "closePR", @)]
  /\ ListUnchanged

\* migrateToVersion1: deleteBranch(metaData.branch)
migrateDeleteBranch(b) ==
  /\ lu.pc = "map"
  /\ lu.task[b].pc = "deleteBranch"
  /\ \E ok \in BOOLEAN :
       IF ~ok THEN TaskFails(b)
       ELSE lu' = [lu EXCEPT !.remote[b].exists = FALSE,
                             !.task[b].pc = MigrateNext("deleteBranch"),
                             !.task[b].branch = MigratedBranch(b, "deleteBranch", @)]
  /\ ListUnchanged

\* migrateToVersion1: deleteMetadata(oldContentKey), which resolves whether or
\* not its write succeeded; the step resolves with the new branch
migrateDeleteMetadata(b) ==
  /\ lu.pc = "map"
  /\ lu.task[b].pc = "deleteMetadata"
  /\ ~lu.semHeld
  /\ \E ok \in BOOLEAN :
       lu' = [lu EXCEPT !.remote[b].meta = IF ok THEN NoMetadata ELSE @,
                        !.task[b].pc = MigrateNext("deleteMetadata"),
                        !.task[b].branch = MigratedBranch(b, "deleteMetadata", @)]
  /\ ListUnchanged

\* getUpdatedOpenAuthoringMetadata: what it does with the state of the
\* recorded pull request
AfterPullRequest(b, state) ==
  LET task == lu.task[b]
      status == task.metadata.status
  IN IF state = "merged" THEN [task EXCEPT !.pc = "removed", !.bg = "retrieve"]
     ELSE IF state = "closed" /\ status # "draft"
       THEN [task EXCEPT !.pc = "storeMetadata", !.status = "draft"]
     ELSE IF state = "open" /\ status # "pending_review"
       THEN [task EXCEPT !.pc = "storeMetadata", !.status = "pending_review"]
     ELSE [task EXCEPT !.pc = "ok", !.branch = ListedName(b)]

listGetPullRequest(b) ==
  /\ lu.pc = "map"
  /\ lu.task[b].pc = "getPullRequest"
  /\ \E ok \in BOOLEAN :
       IF ~ok THEN TaskFails(b)
       ELSE lu' = [lu EXCEPT !.task[b] = AfterPullRequest(b, lu.remote[b].pr)]
  /\ ListUnchanged

\* the calls getUpdatedOpenAuthoringMetadata does not wait for: storeMetadata
\* with status draft, and deleteUnpublishedEntry (retrieveMetadata, closePR,
\* deleteBranch, deleteMetadata); they go on after the listing has returned
listUnawaited(b) ==
  /\ lu.pc \in {"map", "done"}
  /\ lu.task[b].bg # "none"
  /\ lu.task[b].bg \in {"storeMetadata", "deleteMetadata"} => ~lu.semHeld
  /\ \E ok \in BOOLEAN :
       LET bg == lu.task[b].bg IN
       IF bg = "storeMetadata" THEN
         IF ok THEN lu' = [lu EXCEPT !.remote[b].meta.status = "draft", !.task[b].bg = "none"]
         ELSE lu' = [lu EXCEPT !.semHeld = TRUE, !.task[b].bg = "none"]
       ELSE IF bg = "deleteMetadata" THEN
         lu' = [lu EXCEPT !.remote[b].meta = IF ok THEN NoMetadata ELSE @, !.task[b].bg = "none"]
       ELSE IF ~ok THEN lu' = [lu EXCEPT !.task[b].bg = "none"]
       ELSE IF bg = "retrieve" THEN
         lu' = [lu EXCEPT !.task[b].bg = IF lu.remote[b].meta = NoMetadata THEN "none" ELSE "closePR"]
       ELSE IF bg = "closePR" THEN lu' = [lu EXCEPT !.task[b].bg = "deleteBranch"]
       ELSE lu' = [lu EXCEPT !.remote[b].exists = FALSE, !.task[b].bg = "deleteMetadata"]
  /\ ListUnchanged

\* mutation of OnlySuccessful: a step that returned nothing is kept too
OnlySuccessfulOrRemoved(task) ==
  {task[b].branch : b \in {c \in ListBranches : task[c].pc \in {"ok", "removed"}}}

\* onlySuccessfulPromises: the values of the steps that resolved, once every
\* step has settled
OnlySuccessful(task) == {task[b].branch : b \in {c \in ListBranches : task[c].pc = "ok"}}

listReturn ==
  /\ lu.pc = "map"
  /\ \A b \in ListBranches : Settled(lu.task[b])
  /\ lu' = [lu EXCEPT !.pc = "done", !.result = OnlySuccessful(lu.task)]
  /\ ListUnchanged

ListNext ==
  \/ listBranches
  \/ listPRs
  \/ \E b \in ListBranches : listRetrieveMetadata(b)
  \/ \E b \in ListBranches : migrateCreateBranch(b)
  \/ \E b \in ListBranches : migrateCreatePR(b)
  \/ \E b \in ListBranches : listStoreMetadata(b)
  \/ \E b \in ListBranches : migrateClosePR(b)
  \/ \E b \in ListBranches : migrateDeleteBranch(b)
  \/ \E b \in ListBranches : migrateDeleteMetadata(b)
  \/ \E b \in ListBranches : listGetPullRequest(b)
  \/ \E b \in ListBranches : listUnawaited(b)
  \/ listReturn

\* one listing of every remote within the bounds, in both variants; a step
\* that can go on is run
ListSpec == ListInit /\ [][ListNext]_vars /\ WF_vars(ListNext)

----------------------------------------------------------------------------
(***************************************************************************)
(* Properties of the metadata store.                                       *)
(***************************************************************************)
CriticalPcs ==
  {"checkRef", "bootBlob", "bootTree", "bootCommit", "bootRef",
   "uploadBlob", "updateTree", "commit", "patchRef"}

InCritical(c) == call[c].op \in WriteOps /\ call[c].pc \in CriticalPcs

SettledWrites == {c \in Calls : call[c].op \in WriteOps /\ call[c].pc = "settled"}

NoInterference == ~failed /\ extCount = 0

\* C1: at most one metadata-ref write (from the read of the ref tip to the ref
\* patch) is in progress at any time, whatever the interleaving of the calls.
C1_OneWriterAtATime == Cardinality({c \in Calls : InCritical(c)}) <= 1

C1_Witness ==
  \E c1, c2 \in Calls :
    /\ call[c1].op \in WriteOps /\ call[c1].pc = "patchRef"
    /\ call[c2].op \in WriteOps /\ call[c2].pc = "waiting"

\* C2: when a storeMetadata call fails, the write slot is released: the slot is
\* held only by a write in progress, and a waiting write is waiting for one.
C2_SlotReleasedOnFailure ==
  (\E c \in Calls : call[c].op = "store" /\ call[c].pc = "settled"
                    /\ call[c].result # "resolved")
    => /\ sem.current = Cardinality({d \in Calls : InCritical(d)})
       /\ \A w \in Calls : call[w].pc = "waiting" => \E d \in Calls : InCritical(d)

\* C3: when the ref tip was moved between the tip read of storeMetadata and its
\* ref patch, the single non-forced patch is rejected: the call rejects with
\* that error without another attempt, and the remote ref, the remote objects
\* and the cache are unchanged.
C3_ConflictRejectedOnce ==
  [][\A c \in Calls :
       (/\ call[c].op = "store"
        /\ call[c].pc = "patchRef"
        /\ call'[c].pc # "patchRef"
        /\ metaRef # call[c].branchData)
       => /\ call'[c].pc = "settled"
          /\ call'[c].result \in {"Conflict", "Transport"}
          /\ (~failed' => call'[c].result = "Conflict")
          /\ metaRef' = metaRef
          /\ commits' = commits
          /\ cache' = cache]_vars

C3_Witness ==
  \E c \in Calls :
    /\ call[c].op = "store" /\ call[c].pc = "settled"
    /\ call[c].result = "Conflict"
    /\ extCount > 0
    /\ cache[call[c].key] = NoEntry

\* C4: with no external writer and no remote failure, every concurrent
\* storeMetadata and deleteMetadata completes without a rejection, the commit of
\* each write has the tip of the previous write as parent, and the metadata
\* tree reflects every write.
C4_NoLostUpdate ==
  NoInterference =>
    /\ \A c \in SettledWrites : call[c].result = "resolved" /\ call[c].caught = "none"
    /\ metaRef = 0 => SettledWrites = {}
    /\ metaRef # 0 =>
         /\ TreeOf(commits, metaRef) = expected
         /\ ChainLength(commits, metaRef) = 1 + Cardinality(SettledWrites)

C4_Witness ==
  /\ NoInterference
  /\ SettledWrites = Calls
  /\ \E c1, c2 \in Calls :
       /\ c1 # c2
       /\ call[c1].key = call[c2].key
       /\ call[c1].op = "store" /\ call[c2].op = "store"
  /\ sem.current = 0

\* C5: deleteMetadata(K) always resolves, also when a remote call inside it
\* fails, and when its remote calls succeed K.json is absent from the metadata
\* tree when it completes.
C5_DeleteAlwaysResolves ==
  [][\A c \in Calls :
       (call[c].op = "delete" /\ call[c].pc # "settled" /\ call'[c].pc = "settled")
       => /\ call'[c].result = "resolved"
          /\ call'[c].caught = "none"
               => RemoteDoc(commits', metaRef', call[c].key) = None]_vars

C5_Witness ==
  \E c1, c2 \in Calls :
    /\ c1 # c2
    /\ call[c1].op = "delete" /\ call[c2].op = "delete"
    /\ call[c1].key = call[c2].key
    /\ call[c1].pc = "settled" /\ call[c2].pc = "settled"
    /\ call[c1].result = "resolved" /\ call[c2].result = "resolved"
    /\ call[c1].caught = "none" /\ call[c2].caught # "none"
    /\ \A c \in Calls : call[c].op # "store"

\* C6: a retrieveMetadata(K) less than 5 minutes after a successful
\* storeMetadata(K, M) returns M without a remote read; otherwise it issues a
\* remote read and returns the remote document.
C6_CacheWindow ==
  [][\A c \in Calls :
       /\ (call[c].op = "retrieve" /\ call[c].pc = "cacheGet" /\ call'[c].pc # "cacheGet")
            => LET ls == lastStore[call[c].key]
               IN  IF ls # NoStore /\ now - ls.at < CacheTTL
                     THEN /\ call'[c].pc = "settled"
                          /\ call'[c].result = "resolved"
                          /\ call'[c].value = ls.data
                          /\ ~call'[c].remoteRead
                     ELSE call'[c].pc = "remoteGet"
       /\ (call[c].op = "retrieve" /\ call[c].pc = "remoteGet" /\ call'[c].pc = "settled")
            => /\ call'[c].remoteRead
               /\ call'[c].result # "Transport" =>
                    /\ call'[c].value = RemoteDoc(commits, metaRef, call[c].key)
                    /\ call'[c].result = "resolved" <=> call'[c].value # None]_vars

C6_Witness ==
  \E c1, c2 \in Calls :
    /\ call[c1].op = "retrieve" /\ call[c2].op = "retrieve"
    /\ call[c1].key = call[c2].key
    /\ lastStore[call[c1].key] # NoStore
    /\ call[c1].pc = "settled" /\ ~call[c1].remoteRead
    /\ call[c1].value = lastStore[call[c1].key].data
    /\ call[c2].pc = "settled" /\ call[c2].remoteRead
    /\ call[c2].result = "resolved"
    /\ now - lastStore[call[c1].key].at >= CacheTTL

\* a deleteMetadata of key k has completed with every remote call answered,
\* and the document of k is absent from the metadata tree
DeletedDoc(k) ==
  /\ RemoteDoc(commits, metaRef, k) = None
  /\ \E d \in Calls :
       /\ call[d].op = "delete"
       /\ call[d].key = k
       /\ call[d].pc = "settled"
       /\ call[d].caught = "none"

\* C35: once deleteMetadata(K) has completed and removed the document,
\* retrieveMetadata(K) does not return a document, also when K was stored less
\* than 5 minutes earlier: it reports the entry as not found.
C35_DeletedIsNotRetrieved ==
  [][\A c \in Calls :
       (/\ call[c].op = "retrieve"
        /\ call[c].pc \in {"cacheGet", "remoteGet"}
        /\ call'[c].pc = "settled"
        /\ DeletedDoc(call[c].key))
       => /\ call'[c].result # "resolved"
          /\ call'[c].value = None]_vars

\* C7: the bootstrap of the metadata ref is idempotent under races: with no
\* transport failure, an attempt never fails because the ref was created by
\* another writer between its read of the ref and its createRef.
C7_BootstrapIdempotent == ~failed => \A c \in Calls : call[c].caught # "AlreadyExists"

----------------------------------------------------------------------------
(***************************************************************************)
(* Properties of the content-key codec.                                    *)
(***************************************************************************)
\* C8: generateContentKey returns collection/slug in the standard variant and
\* owner/repo/collection/slug in the open-authoring variant.
C8_ContentKeyByVariant ==
  (codec.pc # "idle" /\ codec.generated) =>
     codec.contentKey =
       IF codec.useOpenAuthoring
         THEN codec.repo \o Slash \o codec.collectionName \o Slash \o codec.slug
         ELSE codec.collectionName \o Slash \o codec.slug

\* C9: for every content key K, contentKeyFromRef of refs/heads/ followed by
\* generateBranchName(K) is K.
C9_BranchNameRoundTrip ==
  codec.pc \in {"ref", "done"} => codec.keyFromRef = codec.contentKey

C9_Witness ==
  /\ codec.pc = "ref"
  /\ ~codec.generated
  /\ Len(codec.contentKey) = MaxLen + 1
  /\ codec.keyFromRef = codec.contentKey
  /\ codec.branchName = CMS_BRANCH_PREFIX \o Slash \o codec.contentKey

\* C10: in both variants slugFromContentKey(generateContentKey(c, s), c) is s,
\* for every collection name c without the delimiter and every slug s.
C10_SlugRoundTrip == codec.pc = "done" => codec.slugFromKey = codec.slug

----------------------------------------------------------------------------
(***************************************************************************)
(* Properties of the rebase engine.                                        *)
(***************************************************************************)
\* the files the remote reports for the i-th commit unique to the branch
FilesOfCommit(i) ==
  LET ci == rb.remote[rb.commits[i]]
  IN CompareFiles(rb.remote[ci.parent].tree, ci.tree)

\* the commit the i-th new commit was created on
RebasedOn(i) == IF i = 1 THEN rb.baseCommit ELSE rb.created[i - 1]

\* C11: when the parent of the first commit unique to the branch is the base
\* commit of the comparison with the default branch, rebaseBranch returns the
\* last unique commit, which is the head of the branch, and creates no tree
\* and no commit.
C11_RebaseNoOp ==
  (/\ rb.pc = "done"
   /\ Len(rb.commits) > 0
   /\ rb.remote[rb.commits[1]].parent = rb.baseCommit)
  => /\ rb.result = rb.commits[Len(rb.commits)]
     /\ rb.result = rb.head
     /\ rb.trees = 0
     /\ rb.created = <<>>
     /\ Len(rb.remote) = rb.head

C11_Witness ==
  /\ rb.pc = "done"
  /\ Len(rb.commits) >= 2
  /\ rb.remote[rb.commits[1]].parent = rb.baseCommit
  /\ rb.result = rb.head

\* C12: a replay of n >= 1 unique commits c1..cn creates exactly n commits, in
\* that order: the i-th has one parent, the (i-1)-th new commit (the base
\* commit for i = 1), its tree is the tree of that parent with the files ci
\* changed against its own parent set as in ci, and it has the message, author
\* and committer of ci; the result is the n-th new commit.
C12_ReplayFold ==
  (rb.pc = "done" /\ rb.replayed)
  => LET n == Len(rb.commits) IN
     /\ n >= 1
     /\ Len(rb.created) = n
     /\ rb.trees = n
     /\ Len(rb.remote) = rb.head + n
     /\ \A i \in 1..n :
          LET new == rb.remote[rb.created[i]]
              ci == rb.remote[rb.commits[i]]
          IN /\ rb.created[i] = rb.head + i
             /\ new.parent = RebasedOn(i)
             /\ \A p \in Paths :
                  new.tree[p] = IF ci.tree[p] # rb.remote[ci.parent].tree[p]
                                  THEN ci.tree[p]
                                  ELSE rb.remote[RebasedOn(i)].tree[p]
             /\ new.message = ci.message
             /\ new.author = ci.author
             /\ new.committer = ci.committer
     /\ rb.result = rb.created[n]

C12_Witness ==
  /\ rb.pc = "done"
  /\ rb.replayed
  /\ Len(rb.created) >= 2
  /\ rb.remote[rb.created[2]].parent = rb.created[1]
  /\ rb.remote[rb.created[1]].tree # rb.remote[rb.baseCommit].tree
  /\ rb.remote[rb.created[2]].tree # rb.remote[rb.commits[2]].tree

\* C13: in the tree of a replayed commit a removed file is absent, a renamed
\* file is absent at its previous path and present at its new path with the
\* sha of its content, and a file of any other status is present at its path
\* with its sha; so replaying a commit that renames a.md to b.md gives a tree
\* without a.md and with b.md at the sha of the original content.
C13_FileStatusTranslation ==
  \A i \in 1..Len(rb.created) :
    LET tree == rb.remote[rb.created[i]].tree
        ci == rb.remote[rb.commits[i]]
        files == FilesOfCommit(i)
    IN \A j \in 1..Len(files) :
         LET file == files[j] IN
         IF file.status = "removed" THEN tree[file.filename] = None
         ELSE IF file.status = "renamed"
           THEN /\ tree[file.previous_filename] = None
                /\ tree[file.filename] = file.sha
                /\ file.sha = rb.remote[ci.parent].tree[file.previous_filename]
         ELSE tree[file.filename] = file.sha

C13_Witness ==
  /\ rb.pc = "done"
  /\ Len(rb.created) = 1
  /\ FilesOfCommit(1) = <<RenamedFile(rb.remote[rb.commits[1]].tree, "a.md", "b.md")>>
  /\ rb.remote[rb.baseCommit].tree["a.md"] # None
  /\ rb.remote[rb.created[1]].tree["a.md"] = None
  /\ rb.remote[rb.created[1]].tree["b.md"] = rb.remote[1].tree["a.md"]

\* C25: when the comparison with the default branch gives no commit unique to
\* the branch, rebaseBranch returns the head of the branch, creating nothing.
C25_EmptyRebaseReturnsHead ==
  (rb.pc = "done" /\ Len(rb.commits) = 0)
  => /\ rb.result = rb.head
     /\ rb.created = <<>>

----------------------------------------------------------------------------
(***************************************************************************)
(* Properties of the editorial workflow.                                   *)
(***************************************************************************)
\* the step in which the foreground operation name resolves
Completes(name) ==
  /\ Fg.name = name
  /\ Fg.pc \notin {"idle", "done"}
  /\ wf'.th.fg.pc = "done"
  /\ wf'.th.fg.result = "ok"

\* the pull request Metadata recorded when the operation read it
Tracked == Fg.metadata.pr.number

\* C14: persisting an entry that is not in the workflow writes Metadata only
\* after the entry branch exists at a new commit built on the tip of the
\* default branch; in the non-fork variant a pull request was opened before
\* and Metadata.pr has its number and head, in the fork variant no pull
\* request was opened and Metadata.pr is absent; the stored status is the
\* requested one or else the configured initial one, and version is "1".
C14_BranchThenPrThenMetadata ==
  [][(Completes("create") /\ Fg.pc = "storeMetadata")
     => /\ wf.branch # NoBranch
        /\ wf.branch = Fg.commit
        /\ Fg.commit.parent = Fg.branchData
        /\ wf'.doc.status = (IF Fg.status # None THEN Fg.status ELSE wf.initialWorkflowStatus)
        /\ wf'.doc.version = "1"
        /\ IF wf.useOpenAuthoring
             THEN Len(wf.prs) = Fg.prsBefore /\ wf'.doc.pr = NoPR
             ELSE /\ Len(wf.prs) = Fg.prsBefore + 1
                  /\ wf'.doc.pr = [number |-> Len(wf.prs), head |-> HeadSha(wf.branch)]]_vars

C14_Witness ==
  /\ Fg.name = "create"
  /\ Fg.pc = "done"
  /\ Fg.result = "ok"
  /\ ~wf.useOpenAuthoring
  /\ Fg.status = None
  /\ wf.doc.pr = [number |-> 1, head |-> HeadSha(wf.branch)]
  /\ wf.prs[1].state = "open"
  /\ wf.doc.status = wf.initialWorkflowStatus

\* whether the tracked pull request was closed when the operation met it: as
\* the operation read it, or as it is when the operation does not read it
TrackedWas(state) ==
  IF wf'.th.fg.state # None THEN wf'.th.fg.state = state ELSE wf.prs[Tracked].state = state

ToPendingReview ==
  /\ (Fg.metadata.pr = NoPR
        => /\ Len(wf'.prs) = Fg.prsBefore + 1
           /\ Fg.disturbed \/ wf'.prs[Len(wf'.prs)].state = "open"
           /\ wf'.doc.pr.number = Len(wf'.prs)
           /\ wf'.doc.status = "pending_review")
  /\ (Fg.metadata.pr # NoPR /\ TrackedWas("closed")
        => /\ Len(wf'.prs) = Fg.prsBefore
           /\ Fg.disturbed \/ wf'.prs[Tracked].state = "open"
           /\ wf'.doc.pr = Fg.metadata.pr
           /\ wf'.doc.status = "pending_review")

\* C15 as stated, in both variants: a status change to pending_review creates
\* exactly one pull request and records it when Metadata records none, and
\* reopens the recorded pull request when it is closed.
C15_AnyVariant ==
  [][(Completes("status") /\ Fg.status = "pending_review") => ToPendingReview]_vars

\* C15: in the fork variant, a status change to pending_review creates exactly
\* one pull request for the entry branch, records it in Metadata.pr and sets
\* the status when Metadata records no pull request, and reopens the recorded
\* pull request, creating none, and sets the status when it is closed.
C15_ForkPendingReview ==
  [][(Completes("status") /\ Fg.status = "pending_review" /\ wf.useOpenAuthoring)
     => ToPendingReview]_vars

C15_Witness ==
  /\ Fg.name = "status"
  /\ Fg.pc = "done"
  /\ Fg.result = "ok"
  /\ Fg.status = "pending_review"
  /\ Fg.state = "closed"
  /\ wf.useOpenAuthoring
  /\ wf.prs[Tracked].state = "open"
  /\ wf.doc.status = "pending_review"

ToDraft ==
  /\ wf'.prs[Tracked].state = "closed"
  /\ Fg.pc = "storeMetadata"
  /\ wf.prs[Tracked].state = "closed"
  /\ wf'.doc.status = "draft"

FromPendingReviewToDraft ==
  /\ Completes("status")
  /\ Fg.status = "draft"
  /\ Fg.metadata.status = "pending_review"
  /\ Fg.metadata.pr # NoPR
  /\ TrackedWas("open")

\* C16 as stated, in both variants: a status change from pending_review to
\* draft of an entry whose tracked pull request is open closes the pull request
\* and then stores Metadata with status draft.
C16_AnyVariant == [][FromPendingReviewToDraft => ToDraft]_vars

\* C16: in the fork variant, a status change from pending_review to draft of
\* an entry whose tracked pull request is open closes that pull request and
\* then stores Metadata with status draft; after the call the pull request is
\* closed and Metadata.status is draft.
C16_ForkDraftClosesPr ==
  [][(FromPendingReviewToDraft /\ wf.useOpenAuthoring) => ToDraft]_vars

C16_Witness ==
  /\ Fg.name = "status"
  /\ Fg.pc = "done"
  /\ Fg.result = "ok"
  /\ Fg.status = "draft"
  /\ Fg.metadata.status = "pending_review"
  /\ Fg.state = "open"
  /\ wf.useOpenAuthoring
  /\ wf.prs[Tracked].state = "closed"
  /\ wf.doc.status = "draft"

\* C17: in the fork variant a status change to pending_publish ends in an
\* error and changes no Metadata, pull request or branch; and as long as the
\* entry was only ever created as draft, Metadata.status is never
\* pending_publish, whatever status changes and reconciliations were made.
C17_ForkNeverPendingPublish ==
  [][/\ (/\ wf.useOpenAuthoring
         /\ Fg.name = "status"
         /\ Fg.status = "pending_publish"
         /\ Fg.pc = "retrieveMetadata"
         /\ wf'.th.fg.pc # Fg.pc
         /\ wf'.th.fg.error # "Transport")
        => /\ wf'.doc = wf.doc
           /\ wf'.cache = wf.cache
           /\ wf'.prs = wf.prs
           /\ wf'.branch = wf.branch
           /\ wf'.th.fg.pc = "done"
           /\ wf'.th.fg.result = "error"
     /\ (wf'.useOpenAuthoring /\ wf'.createdAs # "other")
        => wf'.doc.status # "pending_publish"]_vars

C17_Witness ==
  /\ wf.useOpenAuthoring
  /\ wf.createdAs = "draft"
  /\ Fg.name = "status"
  /\ Fg.status = "pending_publish"
  /\ Fg.pc = "done"
  /\ Fg.error = "Error"
  /\ wf.doc.status = "pending_review"
  /\ wf.doc.pr # NoPR

\* C18: publishUnpublishedEntry merges the tracked pull request with the
\* configured merge method, then deletes the entry branch, then the Metadata
\* document: after a publish that merged and resolved, the pull request is
\* merged by that method and neither the branch nor the document exists.
C18_PublishCleansUp ==
  [][(Completes("publish") /\ Fg.state # "405")
     => /\ wf'.prs[Tracked].merged
        /\ wf'.prs[Tracked].method = wf.mergeMethod
        /\ Fg.pc = "deleteMetadata"
        /\ wf'.branch = NoBranch
        /\ wf'.doc = NoDoc]_vars

\* C19: when the merge of publishUnpublishedEntry is answered with 405, one
\* forced-merge sequence runs (one tree on the tip of the default branch with
\* the files of Metadata.objects, one commit on it, one update of the default
\* branch), and then the branch and the Metadata document are deleted.
C19_ForcedMergeOnce ==
  [][(Completes("publish") /\ Fg.state = "405")
     => /\ Fg.trees = 1
        /\ Fg.commits = 1
        /\ Fg.patches = 1
        /\ Fg.commit = EntryCommit(Fg.branchData, Fg.metadata.objects)
        /\ Fg.pc = "deleteMetadata"
        /\ wf'.branch = NoBranch
        /\ wf'.doc = NoDoc]_vars

\* C20: deleteUnpublishedEntry resolves when the tracked pull request is closed
\* or missing, when the branch is absent and when the Metadata document is
\* absent: called right after a deleteUnpublishedEntry that resolved, it does
\* not fail for want of the document.
C20_DeleteTwice ==
  ~(/\ Fg.name = "delete"
    /\ Fg.after = "delete"
    /\ Fg.pc = "done"
    /\ Fg.result = "error"
    /\ Fg.error = "Not Found")

\* the Metadata a reconciliation has when it completes: what it read in this
\* step, or what it read before
Recorded ==
  IF Fg.pc = "retrieveMetadata" THEN (IF wf.cache # NoDoc THEN wf.cache ELSE wf.doc)
  ELSE Fg.metadata

\* the state of the recorded pull request as the reconciliation read it
RecordedPrState ==
  IF Fg.pc = "getPullRequest" THEN wf.prs[Tracked].state ELSE Fg.state

\* the reconciliation that completes started a write of Metadata
ReconcileWrote ==
  \/ Fg.pc = "storeMetadata"
  \/ wf'.th.bg.name = "store" /\ wf.th.bg.name # "store"

\* C21: the status a reconciliation returns is a function of the state of the
\* recorded pull request (draft without one, draft when it is closed and not
\* merged, pending_review when it is open), Metadata is written only when that
\* status differs from the recorded one, and a reconciliation that follows a
\* reconciliation, the maintainers having done nothing, writes nothing.
C21_ReconcileIdempotent ==
  [][(Completes("reconcile") /\ wf'.th.fg.metadata # NoDoc)
     => /\ wf'.th.fg.metadata.status =
             (IF Recorded.pr = NoPR \/ RecordedPrState = "closed"
                THEN "draft" ELSE "pending_review")
        /\ ReconcileWrote => (wf'.th.fg.metadata.status # Recorded.status)
        /\ (Fg.after = "reconcile" /\ wf.external = 0) => ~ReconcileWrote]_vars

\* the reconciliation of the listing reads the recorded pull request, which
\* is merged
ListsMerged ==
  /\ Fg.name = "reconcile"
  /\ Fg.pc = "getPullRequest"
  /\ wf.prs[Tracked].merged
  /\ wf'.th.fg.pc = "done"
  /\ wf'.th.fg.error # "Transport"

\* the deletion that a listing started for the merged entry is running
DeletionStarted == wf.th.bg.name = "delete" /\ wf.th.bg.pc \notin {"idle", "done"}

\* C22: in the fork variant, a listing that finds the recorded pull request
\* merged does not list the branch of the entry and starts its deletion, and
\* the deletion it started eventually deletes the branch and eventually
\* deletes the Metadata document.
C22_MergedEntryRemoved ==
  /\ [][ListsMerged => (~Listed(wf'.th.fg) /\ wf'.th.bg.name = "delete")]_vars
  /\ (DeletionStarted ~> wf.branch = NoBranch)
  /\ (DeletionStarted ~> wf.doc = NoDoc)

\* C29: whenever a status change completes without error, in either variant
\* and whatever the state of the recorded pull request, the Metadata document
\* of the entry has the requested status.
C29_StatusStored ==
  [][Completes("status") => wf'.doc.status = Fg.status]_vars

\* the step of forceMergePR that asks the remote to move the default branch
\* and gets an answer
ForcedMergePatchAnswered ==
  /\ Fg.name = "publish"
  /\ Fg.pc = "patchBranch"
  /\ wf'.th.fg.pc # "patchBranch"
  /\ wf'.th.fg.error # "Transport"

\* C30: the update of the default branch that forceMergePR issues is forced:
\* it moves the default branch to the commit created, also when the default
\* branch moved after its tip was read.
C30_ForcedMergePatchIsForced ==
  [][ForcedMergePatchAnswered =>
       /\ wf'.th.fg.pc = "deleteBranch"
       /\ wf'.default.entry = Fg.commit.entry
       /\ wf'.default.sha # wf.default.sha]_vars

\* the merge of a publish is answered with an error that is not a 405
MergeFailsNot405 ==
  /\ Fg.name = "publish"
  /\ Fg.pc = "mergePR"
  /\ wf'.th.fg.pc \notin {"mergePR", "deleteBranch"}
  /\ wf'.th.fg.state # "405"

\* C31: when the merge of publishUnpublishedEntry fails with an error other
\* than 405, the call ends with that error without a forced merge, and the
\* entry branch, the Metadata document and the default branch are as before.
C31_MergeErrorPropagates ==
  [][MergeFailsNot405 =>
       /\ wf'.th.fg.pc = "done"
       /\ wf'.th.fg.result = "error"
       /\ wf'.th.fg.error = "APIError"
       /\ wf'.branch = wf.branch
       /\ wf'.doc = wf.doc
       /\ wf'.default = wf.default
       /\ wf'.prs = wf.prs]_vars

\* a publish that ended with the error of its merge; the entry is still there
C31_Witness ==
  /\ Fg.name = "publish"
  /\ Fg.pc = "done"
  /\ Fg.error = "APIError"
  /\ wf.branch # NoBranch
  /\ wf.doc # NoDoc

\* C38: every write of Metadata and every deletion of the entry that a
\* reconciliation starts has completed when the reconciliation returns.
C38_ReconcileAwaitsWrites ==
  [][(Fg.name = "reconcile" /\ ~Idle("fg") /\ wf'.th.fg.pc = "done")
     => wf'.th.bg.pc \in {"idle", "done"}]_vars

\* no workflow operation is in progress
Quiescent == Idle("fg") /\ Idle("bg")

\* C34: in every state in which no workflow operation is in progress, also
\* after operations that ended in an error, the entry branch exists if and
\* only if the Metadata document of the entry exists.
C34_BranchIffMetadata ==
  Quiescent => ((wf.branch # NoBranch) <=> (wf.doc # NoDoc))

----------------------------------------------------------------------------
(***************************************************************************)
(* Properties of the listing.                                              *)
(***************************************************************************)
\* the branch had an open pull request into the default branch with the
\* branch as its head when the listing started
HadOpenPR(b) == lu.remote0[b].exists /\ lu.remote0[b].pr = "open"

\* the step of the branch resolved
StepSucceeded(b) == lu.task[b].pc = "ok"

\* C23: in the non-fork variant the listing returns exactly the branches under
\* the prefix that have an open pull request into the default branch whose
\* head is the branch and whose step (migrateBranch) succeeded, a migrated
\* branch under its new name; every branch returned exists and has an open
\* pull request, and a branch with no pull request, a closed one or one into
\* another base is never returned.
C23_OnlyBranchesWithOpenPRs ==
  (lu.pc = "done" /\ ~lu.useOpenAuthoring)
  => \A b \in ListBranches :
       /\ ListedName(b) \in lu.result
            <=> (HadOpenPR(b) /\ StepSucceeded(b) /\ lu.remote0[b].meta.version # None)
       /\ NewBranchName(b) \in lu.result
            <=> (HadOpenPR(b) /\ StepSucceeded(b) /\ lu.remote0[b].meta.version = None)
       /\ ListedName(b) \in lu.result => (lu.remote[b].exists /\ lu.remote[b].pr = "open")
       /\ NewBranchName(b) \in lu.result
            => (lu.remote[b].newExists /\ lu.remote[b].newPr = "open")
       /\ lu.remote0[b].pr \in {"none", "closed", "other"}
            => (ListedName(b) \notin lu.result /\ NewBranchName(b) \notin lu.result)

C23_Witness ==
  /\ lu.pc = "done"
  /\ ~lu.useOpenAuthoring
  /\ lu.result = {ListedName("b1")}
  /\ lu.remote0["b2"].exists
  /\ lu.remote0["b2"].pr = "closed"
  /\ lu.remote0["b2"].meta.version = CURRENT_METADATA_VERSION

\* C24: a branch whose step failed is not in the result, every branch whose
\* step succeeded is, and the listing that started the steps returns whatever
\* steps fail.
C24_PartialFailure ==
  /\ [](lu.pc = "done"
        => \A b \in ListBranches :
             /\ lu.task[b].pc = "failed"
                  => (ListedName(b) \notin lu.result /\ NewBranchName(b) \notin lu.result)
             /\ lu.task[b].pc = "ok" => lu.task[b].branch \in lu.result)
  /\ (lu.pc = "map" ~> lu.pc = "done")

----------------------------------------------------------------------------
(***************************************************************************)
(* Properties of the update of an entry in the workflow                    *)
(***************************************************************************)
IsPrefixOf(s, t) == Len(s) <= Len(t) /\ SubSeq(t, 1, Len(s)) = s

\* C26: a step of rebaseBranch creates commits only: it leaves the branch
\* ref, the default ref and Metadata as they are; when the rebase fails, in
\* the middle of the replay too, the update fails with its error and has
\* changed neither the branch ref nor Metadata.
C26_RebaseTouchesNoRef ==
  /\ [][(up.pc = "rebase" /\ rb.pc \in {"idle", "diff", "tree", "commit"}) =>
          /\ up'.branch = up.branch
          /\ up'.doc = up.doc
          /\ rb'.head = rb.head
          /\ rb'.defaultTip = rb.defaultTip
          /\ IsPrefixOf(rb.remote, rb'.remote)]_vars
  /\ [](rb.pc = "failed" =>
          /\ up.pc \in {"rebase", "failed"}
          /\ up.branch = up.branch0
          /\ up.doc = up.doc0)
  /\ []((rb.pc = "failed" /\ up.pc = "failed") => up.error = "Transport")

\* the replay failed after it had created a commit, and the update failed with it
C26_Witness ==
  /\ rb.pc = "failed"
  /\ rb.created # <<>>
  /\ up.pc = "failed"
  /\ up.branch = up.branch0

\* C27: Metadata is written after the branch ref is moved, and the pr.head
\* it records is the commit the entry branch points to.
C27_HeadRecordedAfterPatch ==
  [][(up'.doc # up.doc) =>
       /\ up.patched
       /\ up'.doc.pr.number # 0 => up'.doc.pr.head = up.branch]_vars

RemovedAt(fs) == {i \in 1..Len(fs) : fs[i].sha = None}
PathsOf(files) == {files[i].path : i \in 1..Len(files)}

\* C28: the change set of the update has a deletion for exactly the media
\* paths Metadata tracks and the new media list lacks, all of them before the
\* new and changed files, which are the new media files and the entry; once
\* Metadata is written its objects.files is the new media list.
C28_MediaReconciled ==
  /\ up.pc \in {"commit", "storeMetadata", "patchBranch", "done"} =>
       LET removed == RemovedAt(up.treeFiles)
           k == Cardinality(removed)
       IN /\ {up.treeFiles[i].path : i \in removed} =
               PathsOf(up.doc0.objects.files) \ PathsOf(up.mediaFilesList)
          /\ removed = 1..k
          /\ SubSeq(up.treeFiles, k + 1, Len(up.treeFiles)) =
               up.mediaFilesList \o <<[path |-> EntryPath, sha |-> up.entry]>>
          /\ \A path \in Paths :
               up.changeTree[path] =
                 IF path = EntryPath THEN up.entry
                 ELSE IF path \in PathsOf(up.mediaFilesList) THEN up.mediaFilesList[1].sha
                 ELSE IF path \in PathsOf(up.doc0.objects.files) THEN None
                 ELSE rb.remote[up.rebasedHead].tree[path]
  /\ up.doc # up.doc0 => up.doc.objects.files = up.mediaFilesList

\* an update that removed the tracked media file is done
C28_Witness ==
  /\ up.pc = "done"
  /\ RemovedAt(up.treeFiles) # {}
  /\ up.doc.objects.files = <<>>
  /\ up.doc0.objects.files # <<>>

\* C37: an update of an entry in the workflow leaves status, branch,
\* collection, user, version and pr.number of its Metadata as they were; what
\* it writes differs from the document before in pr.head, title, description
\* and objects only.
C37_UpdateKeepsWorkflowState ==
  /\ up.doc.status = up.doc0.status
  /\ up.doc.branch = up.doc0.branch
  /\ up.doc.collection = up.doc0.collection
  /\ up.doc.user = up.doc0.user
  /\ up.doc.version = up.doc0.version
  /\ up.doc.pr.number = up.doc0.pr.number
  /\ up.doc = [up.doc0 EXCEPT !.pr.head = up.doc.pr.head, !.title = up.doc.title,
                              !.description = up.doc.description,
                              !.objects = up.doc.objects]

\* an update of an entry in review is done and has written Metadata
C37_Witness ==
  /\ up.pc = "done"
  /\ up.doc # up.doc0
  /\ up.doc.status = "pending_review"
  /\ up.doc.pr.number # 0
  /\ up.doc.pr.head # up.doc0.pr.head

----------------------------------------------------------------------------
(***************************************************************************)
(* Properties of the migration of legacy entries                           *)
(***************************************************************************)
\* the step of branch b resolved with the branch migrateToVersion1 created
Migrated(b) ==
  /\ ~lu.useOpenAuthoring
  /\ lu.task[b].pc = "ok"
  /\ lu.task[b].branch = NewBranchName(b)

\* C32: after a successful migrateToVersion1 of a legacy branch the branch of
\* the current naming scheme exists, a new pull request is open for it, the
\* Metadata document of the new key has version "1", the old pull request is
\* closed, and neither the old branch nor the old Metadata document exists;
\* migrateBranch on a branch whose Metadata has a version changes nothing.
C32_MigrationPostcondition ==
  \A b \in ListBranches :
    /\ Migrated(b) =>
         /\ lu.remote[b].newExists
         /\ lu.remote[b].newPr = "open"
         /\ lu.remote[b].newMeta = [lu.remote0[b].meta EXCEPT !.version = "1"]
         /\ lu.remote[b].pr = "closed"
         /\ ~lu.remote[b].exists
         /\ lu.remote[b].meta = NoMetadata
    /\ (/\ ~lu.useOpenAuthoring
        /\ lu.task[b].pc = "ok"
        /\ lu.task[b].branch = ListedName(b))
       => /\ lu.remote0[b].meta.version = CURRENT_METADATA_VERSION
          /\ lu.remote[b] = lu.remote0[b]

\* the entry of branch b is in the legacy format: its Metadata has no version
Legacy(b) ==
  /\ lu.remote0[b].meta # NoMetadata
  /\ lu.remote0[b].meta.version = None

\* C33: in a listing of the fork variant the reconciliation does not ask for
\* the pull request of a legacy entry, write its Metadata or delete it before
\* the entry has been migrated.
C33_MigrationBeforeReconcile ==
  \A b \in ListBranches :
    (lu.useOpenAuthoring /\ Legacy(b) /\ lu.remote[b].newMeta = NoMetadata)
    => /\ lu.task[b].pc \notin {"getPullRequest", "storeMetadata", "removed"}
       /\ lu.task[b].bg = "none"
       /\ lu.remote[b] = lu.remote0[b]

----------------------------------------------------------------------------
(***************************************************************************)
(* Properties of patchBranch                                               *)
(***************************************************************************)
\* the name begins with the workflow prefix cms/
HasCmsPrefix(name) == Len(name) >= 4 /\ SubSeq(name, 1, 4) = <<"c", "m", "s", "/">>

\* C36: patchBranch with force on a branch name that does not begin with the
\* workflow prefix throws before any remote call and moves no ref; no branch
\* outside the prefix, the default branch among them, is ever moved by a forced
\* update, and the callers that patch the default branch never ask for one.
C36_ForceOnlyOnCmsBranches ==
  /\ [][(pb'.calls # pb.calls /\ pb'.last.force /\ ~HasCmsPrefix(pb'.last.branchName))
        => /\ pb'.last.result = "Error"
           /\ pb'.requests = pb.requests
           /\ pb'.refs = pb.refs]_vars
  /\ [](\A name \in PatchNames : pb.forced[name] => HasCmsPrefix(name))
  /\ [](pb.last.site \in {"persistFiles", "forceMergePR"} =>
          /\ pb.last.branchName = DefaultBranch
          /\ ~pb.last.force)

\* a forced update of the default branch was refused without a request, after
\* the entry branch was moved back by a forced update
C36_Witness ==
  /\ pb.last.branchName = DefaultBranch
  /\ pb.last.force
  /\ pb.last.result = "Error"
  /\ pb.forced[generateBranchName(<<"a">>)]
  /\ pb.refs[DefaultBranch] > 1

----------------------------------------------------------------------------
(***************************************************************************)
(* Properties of the steps of the migration                                *)
(***************************************************************************)
\* the entry of b as the listing found it, and under the current naming scheme
OldComplete(b) == lu.remote[b].exists /\ lu.remote[b].meta # NoMetadata
NewComplete(b) == lu.remote[b].newExists /\ lu.remote[b].newMeta # NoMetadata

\* C39: in every state of migrateToVersion1, and after a failure of any of
\* its steps, the old branch with the old Metadata document or the new branch
\* with the new Metadata document exists, and nothing of the old entry is
\* closed or deleted before the new Metadata document is stored.
C39_MigrationKeepsEntry ==
  \A b \in ListBranches :
    (~lu.useOpenAuthoring /\ Legacy(b) /\ lu.remote0[b].exists)
    => /\ OldComplete(b) \/ NewComplete(b)
       /\ (\/ lu.remote[b].pr # lu.remote0[b].pr
           \/ lu.remote[b].exists # lu.remote0[b].exists
           \/ lu.remote[b].meta # lu.remote0[b].meta)
          => NewComplete(b)

\* a migration failed after it closed the old pull request, and one failed
\* before it stored the new Metadata document
C39_Witness ==
  /\ ~lu.useOpenAuthoring
  /\ Legacy("b1") /\ Legacy("b2")
  /\ lu.task["b1"].pc = "failed"
  /\ lu.remote["b1"].pr = "closed"
  /\ lu.remote0["b1"].pr = "open"
  /\ lu.remote["b1"].exists
  /\ lu.task["b2"].pc = "failed"
  /\ lu.remote["b2"].newExists
  /\ lu.remote["b2"].newMeta = NoMetadata

====
